---------------------------- MODULE Spec2Model ----------------------------
(***************************************************************************)
(* Model of pyggs' geocaching.com parser library (src/libs/gcparser.py):   *)
(*   - HTTPInterface: request / build_opener / _get_cookies / _login /     *)
(*     _login_attempt / wait / download_url, as a call stack of frames;    *)
(*   - SeekCacheOCR._process_page with its ImageDownloader threads;       *)
(*   - Image.cut / vsplit / hsplit on grids of pixels;                     *)
(*   - SeekCacheOCR._get_dd / _get_dts on the glyphs of an image;          *)
(*   - the download statistics of _load_stats / _save_stats;               *)
(*   - SeekResult.__getitem__ with its lazily loaded pages.                *)
(* Time is counted in whole seconds.                                       *)
(***************************************************************************)
EXTENDS Integers, Sequences, FiniteSets, TLC

(***************************************************************************)
(* Bounds of the model (not program constants).                            *)
(***************************************************************************)
MaxCalls == 2
\* top-level calls of HTTPInterface.request in one run
MaxFails == 6
\* IOErrors the network raises in one run of the retry specification
MaxOutage == 1
\* IOErrors the network raises in one run of the session specification
MaxRows == 3
\* rows of a result page

MaxMarkers == 2
\* responses carrying the NotSignedInText marker in one run
Epoch == 1000
\* value of time() when the process starts
MaxSide == 3
\* rows and columns of an image
MaxGlyphs == 3
\* glyphs of the number of a distance, of a D/T band

(***************************************************************************)
(* Program constants.                                                      *)
(***************************************************************************)
request_avg_time == 600
RetryCap == 600
RetryFactor == 5

Payloads == {"p1", "p2"}

Min(a, b) == IF a < b THEN a ELSE b
Max(a, b) == IF a > b THEN a ELSE b

VARIABLES
    _credentials,      \* [username, password], "None" when not given
    _data_dir,         \* "None" or "dir"
    _cookies,          \* [jar: "None" | "CookieJar" | "LWPCookieJar", userid: BOOLEAN]
    _user_agent,       \* "None" | "loaded" | "generated"
    _first_download,
    _last_download,
    _download_count,
    stats,             \* stats[today]; the whole dictionary in SpecStats
    cookie_file,       \* <user_file>.cookies: "absent" | "no_userid" | "userid" | "corrupt"
    ua_file,           \* <user_file>.ua exists
    stats_file,        \* count stored for today in <user_file>.stats;
                       \* the lines of the file in SpecStats
    now,               \* time()
    stack,             \* call stack of the thread calling HTTPInterface.request
    ret,               \* value returned by the call that returned last
    result,            \* outcome of the current / last top-level call
    hist,              \* history of the run (counters of calls made)
    failures_left,     \* IOErrors the network may still raise in this run
    access,            \* who touched which shared field: <<actor, field>>
    \* SeekCacheOCR._process_page and its ImageDownloader threads
    page,              \* the rows of the downloaded page: [dd, dts] image codes
    ppc,               \* where the calling thread is in _process_page, or in
                       \* SeekResult.__getitem__
    idx,               \* index of the current code / row of the running loop
    threads,           \* the ImageDownloader objects, in order of creation
    dd_threads,        \* code -> index of its thread (CacheDir images)
    dts_threads,       \* code -> index of its thread (CacheInfo images)
    joined,            \* codes of the running join loop already joined
    _dd,               \* self._dd: code -> image or decoded value
    _dts,              \* self._dts
    caches,            \* the records parsed so far
    \* observation of wait, and the operand and result of the pure functions
    waited,            \* the last wait and the last two authenticated waits
    image,             \* the Image (or _dd / _dts entry) a function is applied to
    returned,          \* what the function applied last returned
    patterns,          \* self.patterns of SeekCacheOCR: bitmask -> character
    seek_result        \* the SeekResult object: [_count, _caches, _post_data]

httpVars == <<_credentials, _data_dir, _cookies, _user_agent, _first_download,
              _last_download, _download_count, stats, cookie_file, ua_file,
              stats_file, now, stack, ret, result, hist, failures_left>>

pageVars == <<page, ppc, idx, threads, dd_threads, dts_threads, joined, _dd,
              _dts, caches>>

auxVars == <<waited, image, returned, patterns, seek_result>>

vars == <<httpVars, access, pageVars, auxVars>>

NoPage == [body |-> "none", marker |-> FALSE]
NoRet == [page |-> NoPage, flag |-> FALSE]
NoCookies == [jar |-> "None", userid |-> FALSE]
\* no SeekResult has been made
NoSeekResult == [_count |-> 0, _caches |-> <<>>, _post_data |-> 0, _log |-> "record"]

\* HTTPInterface._user_file_name: None without username or data directory
_user_file_name == IF _credentials.username = "None" \/ _data_dir = "None"
                   THEN "None" ELSE "user_file"

Frame(fn, pc, url, auth, data, check) ==
    [fn |-> fn, pc |-> pc, url |-> url, auth |-> auth, data |-> data,
     check |-> check, retryTime |-> 1, slept |-> 0, fails |-> 0,
     webpage |-> NoPage]

\* a call of HTTPInterface.request(url, auth, data, check)
RequestFrame(url, auth, data, check) ==
    Frame("request", "build_opener", url, auth, data, check)
LoginFrame == Frame("_login", "attempt1", "login", TRUE, FALSE, FALSE)
LoginAttemptFrame == Frame("_login_attempt", "start", "login", TRUE, FALSE, FALSE)

Top == stack[Len(stack)]
At(fn, pc) == /\ stack # <<>>
              /\ Top.fn = fn
              /\ Top.pc = pc
Below == SubSeq(stack, 1, Len(stack) - 1)
SetTop(f) == Below \o <<f>>


(***************************************************************************)
(* Returning and raising.  No frame of the request path has an exception   *)
(* handler (download_url handles IOError itself), so a raise unwinds the   *)
(* whole stack to the top-level caller.                                    *)
(***************************************************************************)
Return(value) ==
    /\ ret' = value
    /\ stack' = Below
    /\ result' = IF Len(stack) = 1
                 THEN [status |-> "returned", error |-> "none", page |-> value.page]
                 ELSE result

Raise(error) ==
    /\ stack' = <<>>
    /\ ret' = NoRet
    /\ result' = [status |-> "raised", error |-> error, page |-> NoPage]

\* push `callee`; the caller continues at `pc` when it returns
Invoke(callee, pc) == stack' = SetTop([Top EXCEPT !.pc = pc]) \o <<callee>>

(***************************************************************************)
(* Initial state: the class attributes of HTTPInterface after import       *)
(* (set_data_dir("~/.geocaching/parser") has run), and whatever an earlier *)
(* run left on disk for the user.                                          *)
(***************************************************************************)
\* HTTPInterface._load_stats: the count stored for today, if a file is there
_load_stats(user_file) == IF user_file = "None" THEN 0 ELSE stats_file

HttpInit ==
    /\ _credentials \in [username : {"None", "user"}, password : {"None", "secret"}]
    /\ _data_dir \in {"None", "dir"}
    /\ _cookies = NoCookies
    /\ _user_agent = "None"
    /\ _first_download = 0
    /\ _last_download = 0
    /\ _download_count = 0
    /\ cookie_file \in {"absent", "no_userid", "userid", "corrupt"}
    /\ ua_file \in BOOLEAN
    /\ stats_file = 0
    \* without a user file there are no files of the user
    /\ _user_file_name = "None" => cookie_file = "absent" /\ ~ua_file
    /\ stats = _load_stats(_user_file_name)
    /\ now = Epoch
    /\ stack = <<>>
    /\ ret = NoRet
    /\ result = [status |-> "idle", error |-> "none", page |-> NoPage]
    /\ hist = [calls |-> 0, markers |-> 0,
               networked |-> FALSE, loginSent |-> FALSE, logins |-> 0, attempts |-> 0,
               relogins |-> 0, reissues |-> 0, served |-> "none",
               auth |-> FALSE, loaded |-> FALSE, stored |-> "absent",
               failed |-> FALSE]

(***************************************************************************)
(* A parser (the single calling thread) calls HTTPInterface.request.       *)
(***************************************************************************)
CallRequestWith(auths) ==
    /\ stack = <<>>
    /\ ppc = "idle"
    /\ hist.calls < MaxCalls
    /\ \E auth \in auths, data \in BOOLEAN :
         /\ stack' = <<RequestFrame("page", auth, data, TRUE)>>
         /\ hist' = [hist EXCEPT !.calls = @ + 1, !.networked = FALSE, !.loginSent = FALSE,
                                 !.logins = 0, !.attempts = 0, !.relogins = 0,
                                 !.reissues = 0, !.served = "none",
                                 !.auth = auth,
                                 !.loaded = (_cookies.jar # "None"),
                                 !.stored = IF _user_file_name = "None"
                                            THEN "absent" ELSE cookie_file]
    /\ result' = [status |-> "running", error |-> "none", page |-> NoPage]
    /\ ret' = NoRet
    /\ UNCHANGED <<_credentials, _data_dir, _cookies, _user_agent, _first_download,
                   _last_download, _download_count, stats, cookie_file, ua_file,
                   stats_file, now, failures_left>>
    /\ access' = access
    /\ UNCHANGED <<pageVars, auxVars>>

\* any parser: pages with or without authentication
CallRequest == CallRequestWith(BOOLEAN)

\* SeekCache._get_page: self.http.request(url, data=post_data)
CallRequestNoAuth == CallRequestWith({FALSE})

(***************************************************************************)
(* HTTPInterface.build_opener, first half: _get_cookies when auth.         *)
(***************************************************************************)
\* starting HTTPInterface._login resets the per-login attempt counter
EnterLogin(h) == [h EXCEPT !.logins = @ + 1, !.attempts = 0]

\* mutant: the loop over the loaded cookies never finds userid
has_userid_Never(file) == FALSE

\* _get_cookies: logged, whether the loaded jar holds a cookie named userid
has_userid(file) == file = "userid"

\* HTTPInterface._get_cookies, called by build_opener(auth=True)
_get_cookies ==
    \/ \* cookies already loaded in this process
       /\ _cookies.jar # "None"
       /\ stack' = SetTop([Top EXCEPT !.pc = "user_agent"])
       /\ UNCHANGED <<_cookies, ret, result, hist>>
    \/ \* no user file: fresh CookieJar, log in
       /\ _cookies.jar = "None" /\ _user_file_name = "None"
       /\ _cookies' = [jar |-> "CookieJar", userid |-> FALSE]
       /\ Invoke(LoginFrame, "user_agent")
       /\ hist' = EnterLogin(hist)
       /\ UNCHANGED <<ret, result>>
    \/ \* the stored cookie file loads; log in unless it holds userid
       /\ _cookies.jar = "None" /\ _user_file_name # "None"
       /\ cookie_file \in {"userid", "no_userid"}
       /\ _cookies' = [jar |-> "LWPCookieJar", userid |-> (cookie_file = "userid")]
       /\ IF has_userid(cookie_file)
          THEN /\ stack' = SetTop([Top EXCEPT !.pc = "user_agent"])
               /\ hist' = hist
          ELSE /\ Invoke(LoginFrame, "user_agent")
               /\ hist' = EnterLogin(hist)
       /\ UNCHANGED <<ret, result>>
    \/ \* the stored cookie file does not parse: load() raises after the jar
       \* was assigned, holding whatever it read before the bad line
       /\ _cookies.jar = "None" /\ _user_file_name # "None"
       /\ cookie_file = "corrupt"
       /\ \E partial \in BOOLEAN :
            _cookies' = [jar |-> "LWPCookieJar", userid |-> partial]
       /\ Raise("LoadError")
       /\ hist' = hist
    \/ \* no stored cookies: new LWPCookieJar, log in
       /\ _cookies.jar = "None" /\ _user_file_name # "None"
       /\ cookie_file = "absent"
       /\ _cookies' = [jar |-> "LWPCookieJar", userid |-> FALSE]
       /\ Invoke(LoginFrame, "user_agent")
       /\ hist' = EnterLogin(hist)
       /\ UNCHANGED <<ret, result>>

build_opener ==
    /\ At("request", "build_opener")
    /\ UNCHANGED <<_credentials, _data_dir, _user_agent, _first_download,
                   _last_download, _download_count, stats, cookie_file, ua_file,
                   stats_file, now,
                   failures_left>>
    /\ IF Top.auth
       THEN _get_cookies
       ELSE /\ stack' = SetTop([Top EXCEPT !.pc = "user_agent"])
            /\ UNCHANGED <<_cookies, ret, result, hist>>
    /\ access' = access \cup (IF Top.auth THEN {<<"main", "_cookies">>} ELSE {})
    /\ UNCHANGED <<pageVars, auxVars>>

\* HTTPInterface._get_user_agent: the agent in use afterwards, and whether the
\* user agent file exists afterwards (a generated agent is saved when there
\* is a data directory)
_get_user_agent ==
    IF _user_agent # "None"
    THEN [agent |-> _user_agent, file |-> ua_file]
    ELSE IF _user_file_name = "None"
    THEN [agent |-> "generated", file |-> ua_file]
    ELSE IF ua_file
    THEN [agent |-> "loaded", file |-> ua_file]
    ELSE [agent |-> "generated", file |-> TRUE]

\* build_opener, second half: the headers, with _get_user_agent
get_user_agent ==
    /\ At("request", "user_agent")
    /\ _user_agent' = _get_user_agent.agent
    /\ ua_file' = _get_user_agent.file
    /\ stack' = SetTop([Top EXCEPT !.pc = "wait"])
    /\ UNCHANGED <<_credentials, _data_dir, _cookies, _first_download,
                   _last_download, _download_count, stats, cookie_file,
                   stats_file, now, ret, result, hist,
                   failures_left>>
    /\ access' = access \cup {<<"main", "_user_agent">>}
    /\ UNCHANGED <<pageVars, auxVars>>


(***************************************************************************)
(* HTTPInterface.wait                                                      *)
(***************************************************************************)
\* the anchor after "No request for a long time => reset _first_download"
RateFields == {"_first_download", "_last_download", "_download_count"}
MainTouches(fields) == {<<"main", f>> : f \in fields}

\* mutant: the anchor is not reset
FirstDownloadOf_NoReset(t, count, first) == first

\* max(time() - cls._download_count * cls.request_avg_time, cls._first_download)
FirstDownloadOf(t, count, first) == Max(t - count * request_avg_time, first)
FirstDownload(t) == FirstDownloadOf(t, _download_count, _first_download)

\* mutant: the elapsed share is counted against the downloads
AheadCountOf_Reversed(t, count, first) ==
    ((t - FirstDownloadOf(t, count, first)) \div request_avg_time) - count

\* number of downloaded pages ahead of the expected average
AheadCountOf(t, count, first) ==
    count - ((t - FirstDownloadOf(t, count, first)) \div request_avg_time)
AheadCount(t) == AheadCountOf(t, _download_count, _first_download)

\* mutant: the bands apply to every call
SleepTimes_AuthIgnored(auth, count) ==
    IF count < 10 THEN {1}
    ELSE IF count < 50 THEN 2..8
    ELSE IF count < 200 THEN 5..35
    ELSE IF count < 500 THEN 10..50
    ELSE 20..80

\* the delays wait may choose: randint(a, b) is any of a..b
SleepTimes(auth, count) ==
    IF ~auth THEN {1}
    ELSE IF count < 10 THEN {1}
    ELSE IF count < 50 THEN 2..8
    ELSE IF count < 200 THEN 5..35
    ELSE IF count < 500 THEN 10..50
    ELSE 20..80

\* what is kept of a call of wait: the count it found, the sleep_time it
\* chose and the time it slept
Waited(auth, count, sleep_time, slept, at) ==
    [auth |-> auth, count |-> count, sleep_time |-> sleep_time, slept |-> slept,
     at |-> at]
NoWait == Waited(FALSE, 0, 0, 0, 0)
NoWaits == [last |-> NoWait, auth_before |-> NoWait, auth_last |-> NoWait]

\* the body of wait once sleep_time is chosen
wait_sleep(sleep_time) ==
    \* sleep(max(0, _last_download + sleep_time - time()))
    /\ now' = Max(now, _last_download + sleep_time)
    /\ _last_download' = now'
    /\ IF Top.auth
       THEN /\ _first_download' = FirstDownload(now)
            /\ _download_count' = _download_count + 1
       ELSE UNCHANGED <<_first_download, _download_count>>
    /\ stack' = SetTop([Top EXCEPT !.pc = "download"])
    /\ UNCHANGED <<_credentials, _data_dir, _cookies, _user_agent, stats,
                   cookie_file, ua_file, stats_file, ret, result, hist,
                   failures_left>>
    /\ access' = access \cup MainTouches(IF Top.auth THEN RateFields ELSE {"_last_download"})
    /\ UNCHANGED <<pageVars, image, returned, patterns, seek_result>>

wait ==
    /\ At("request", "wait")
    /\ \E sleep_time \in SleepTimes(Top.auth, AheadCount(now)) :
         wait_sleep(sleep_time)
    /\ waited' = waited

\* wait, with what it did put on record
wait_recorded ==
    /\ At("request", "wait")
    /\ \E sleep_time \in SleepTimes(Top.auth, AheadCount(now)) :
         /\ wait_sleep(sleep_time)
         /\ LET w == Waited(Top.auth, AheadCount(now), sleep_time, now' - now, now)
            IN  waited' = IF Top.auth
                          THEN [last |-> w, auth_before |-> waited.auth_last,
                                auth_last |-> w]
                          ELSE [waited EXCEPT !.last = w]

(***************************************************************************)
(* HTTPInterface.download_url                                              *)
(***************************************************************************)
\* mutant: the delay grows without the cap
NextRetryTime_NoCap(retryTime) == RetryFactor * retryTime

\* retryTime passed to the recursive call after a failure
NextRetryTime(retryTime) == Min(RetryFactor * retryTime, RetryCap)

\* opener.open / response.read raised IOError: sleep(retryTime), call again
\* with the next retryTime
download_url_failed(f) ==
    [f EXCEPT !.retryTime = NextRetryTime(f.retryTime),
              !.slept = @ + f.retryTime,
              !.fails = @ + 1]

\* mutant: download_url has no except clause, the IOError reaches the caller
download_error_Raised ==
    /\ At("request", "download")
    /\ failures_left > 0
    /\ failures_left' = failures_left - 1
    /\ Raise("IOError")
    /\ hist' = [hist EXCEPT !.networked = TRUE]
    /\ UNCHANGED <<_credentials, _data_dir, _cookies, _user_agent,
                   _first_download, _last_download, _download_count, stats,
                   cookie_file, ua_file, stats_file, now>>
    /\ access' = access
    /\ UNCHANGED <<pageVars, auxVars>>

download_error ==
    /\ At("request", "download")
    /\ failures_left > 0
    /\ failures_left' = failures_left - 1
    /\ stack' = SetTop(download_url_failed(Top))
    /\ now' = now + Top.retryTime
    /\ hist' = [hist EXCEPT !.networked = TRUE,
                            !.loginSent = @ \/ Top.url = "login"]
    /\ UNCHANGED <<_credentials, _data_dir, _cookies, _user_agent,
                   _first_download, _last_download, _download_count, stats,
                   cookie_file, ua_file, stats_file, ret, result>>
    /\ access' = access
    /\ UNCHANGED <<pageVars, auxVars>>

\* what the site serves at a URL
Bodies(url) == IF url = "login" THEN {"login_form"} ELSE Payloads

\* the response arrives: its body, whether it carries the NotSignedInText
\* marker (answers to authenticated requests only; hist.markers counts the
\* pages, not the login form, that carry it), and whether the jar of the
\* opener holds the userid cookie afterwards (the site sets or withholds it
\* in its answer to the posted login form)
download_ok ==
    /\ At("request", "download")
    /\ \E body \in Bodies(Top.url), marker \in BOOLEAN, userid \in BOOLEAN :
         /\ marker => Top.auth /\ (Top.url = "page" => hist.markers < MaxMarkers)
         /\ ~(Top.url = "login" /\ Top.data) => userid = _cookies.userid
         /\ stack' = SetTop([Top EXCEPT !.pc = "downloaded",
                                        !.webpage = [body |-> body, marker |-> marker]])
         /\ _cookies' = [_cookies EXCEPT !.userid = userid]
         /\ hist' = [hist EXCEPT !.networked = TRUE, !.served = body,
                                 !.markers = @ + (IF marker /\ Top.url = "page"
                                                  THEN 1 ELSE 0),
                                 !.loginSent = @ \/ Top.url = "login"]
    /\ UNCHANGED <<_credentials, _data_dir, _user_agent, _first_download,
                   _last_download, _download_count, stats, cookie_file, ua_file,
                   stats_file, now, ret, result,
                   failures_left>>
    /\ access' = access \cup (IF Top.auth THEN {<<"main", "_cookies">>} ELSE {})
    /\ UNCHANGED <<pageVars, auxVars>>

(***************************************************************************)
(* HTTPInterface.request after the download                                *)
(***************************************************************************)
\* mutant: the jar is never written
_save_cookies_Never == cookie_file

\* HTTPInterface._save_cookies: only an LWPCookieJar is saved
_save_cookies == IF _cookies.jar = "LWPCookieJar"
                 THEN (IF _cookies.userid THEN "userid" ELSE "no_userid")
                 ELSE cookie_file

\* if auth: _save_cookies, stats[today] += 1, _save_stats
request_downloaded ==
    /\ At("request", "downloaded")
    /\ IF Top.auth
       THEN /\ cookie_file' = _save_cookies
            /\ stats' = stats + 1
            /\ stats_file' = IF _user_file_name = "None" THEN stats_file ELSE stats'
       ELSE UNCHANGED <<cookie_file, stats, stats_file>>
    \* download_url has returned: its retryTime is gone with its frames
    /\ stack' = SetTop([Top EXCEPT !.pc = "check", !.retryTime = 1,
                                   !.slept = 0, !.fails = 0])
    /\ UNCHANGED <<_credentials, _data_dir, _cookies, _user_agent,
                   _first_download, _last_download, _download_count, ua_file,
                   now, ret, result, hist,
                   failures_left>>
    /\ access' = access \cup (IF Top.auth THEN {<<"main", "_cookies">>} ELSE {})
    /\ UNCHANGED <<pageVars, auxVars>>

\* HTTPInterface._check_login: False when the page holds the marker
_check_login(webpage) == ~webpage.marker

\* the call request makes to download the page again after the re-login
Redownload(f) == RequestFrame(f.url, f.auth, f.data, TRUE)

request_check ==
    /\ At("request", "check")
    /\ IF Top.auth /\ Top.check /\ ~_check_login(Top.webpage)
       THEN \* the page is dropped: request returns the one downloaded next
            /\ stack' = SetTop([Top EXCEPT !.pc = "redownload", !.webpage = NoPage])
                           \o <<LoginFrame>>
            /\ hist' = [EnterLogin(hist) EXCEPT !.relogins = @ + 1]
            /\ UNCHANGED <<ret, result>>
       ELSE /\ Return([page |-> Top.webpage, flag |-> FALSE])
            /\ hist' = hist
    /\ UNCHANGED <<_credentials, _data_dir, _cookies, _user_agent,
                   _first_download, _last_download, _download_count, stats,
                   cookie_file, ua_file, stats_file, now,
                   failures_left>>
    /\ access' = access
    /\ UNCHANGED <<pageVars, auxVars>>

\* return cls.request(url, auth=auth, data=data)
request_redownload ==
    /\ At("request", "redownload")
    /\ Invoke(Redownload(Top), "return")
    /\ hist' = [hist EXCEPT !.reissues = @ + 1]
    /\ UNCHANGED <<_credentials, _data_dir, _cookies, _user_agent,
                   _first_download, _last_download, _download_count, stats,
                   cookie_file, ua_file, stats_file, now, ret, result,
                   failures_left>>
    /\ access' = access
    /\ UNCHANGED <<pageVars, auxVars>>

request_return ==
    /\ At("request", "return")
    /\ Return(ret)
    /\ UNCHANGED <<_credentials, _data_dir, _cookies, _user_agent,
                   _first_download, _last_download, _download_count, stats,
                   cookie_file, ua_file, stats_file, now, hist,
                   failures_left>>
    /\ access' = access
    /\ UNCHANGED <<pageVars, auxVars>>


(***************************************************************************)
(* HTTPInterface._login and _login_attempt                                 *)
(***************************************************************************)
HttpUnchangedByLogin ==
    UNCHANGED <<_credentials, _data_dir, _cookies, _user_agent, _first_download,
                _last_download, _download_count, stats, cookie_file, ua_file,
                stats_file, now,
                   failures_left>>

\* mutant: LoginError after the first failed attempt
LoginVerdict_NoRetry(pc, logged) == IF logged THEN "return" ELSE "raise"

\* what _login does once an attempt has returned `logged`:
\* "again" (second attempt), "return" (logged in) or "raise" (LoginError)
LoginVerdict(pc, logged) ==
    IF logged THEN "return"
    ELSE IF pc = "attempt1_done" THEN "again"
    ELSE "raise"

\* if not cls._login_attempt(): first call
_login_first ==
    /\ At("_login", "attempt1")
    /\ Invoke(LoginAttemptFrame, "attempt1_done")
    /\ hist' = [hist EXCEPT !.attempts = @ + 1]
    /\ UNCHANGED <<ret, result>>
    /\ HttpUnchangedByLogin
    /\ access' = access
    /\ UNCHANGED <<pageVars, auxVars>>

_login_result ==
    /\ stack # <<>>
    /\ Top.fn = "_login"
    /\ Top.pc \in {"attempt1_done", "attempt2_done"}
    /\ LET verdict == LoginVerdict(Top.pc, ret.flag) IN
         \/ /\ verdict = "return"
            /\ Return(NoRet)
            /\ hist' = hist
         \/ /\ verdict = "again"
            /\ Invoke(LoginAttemptFrame, "attempt2_done")
            /\ hist' = [hist EXCEPT !.attempts = @ + 1]
            /\ UNCHANGED <<ret, result>>
         \/ /\ verdict = "raise"
            /\ Raise("LoginError: Cannot log in.")
            /\ hist' = [hist EXCEPT !.failed = TRUE]
    /\ HttpUnchangedByLogin
    /\ access' = access
    /\ UNCHANGED <<pageVars, auxVars>>

\* mutant: the test asks for both to be missing
CredentialsMissing_Both == _credentials.username = "None" /\ _credentials.password = "None"

\* the credentials test that opens _login_attempt
CredentialsMissing == _credentials.username = "None" \/ _credentials.password = "None"

\* mutant: the requests of a login attempt are checked like any other
LoginRequest_Checked(data) == RequestFrame("login", TRUE, data, TRUE)

\* cls.request(".../login/default.aspx", [data=data,] auth=True, check=False)
LoginRequest(data) == RequestFrame("login", TRUE, data, FALSE)

_login_attempt_start ==
    /\ At("_login_attempt", "start")
    /\ IF CredentialsMissing
       THEN Raise("LoginError: no credentials available.")
       ELSE /\ Invoke(LoginRequest(FALSE), "post")
            /\ UNCHANGED <<ret, result>>
    /\ hist' = hist
    /\ HttpUnchangedByLogin
    /\ access' = access
    /\ UNCHANGED <<pageVars, auxVars>>

\* the login form is posted with the credentials and the hidden inputs
_login_attempt_post ==
    /\ At("_login_attempt", "post")
    /\ Invoke(LoginRequest(TRUE), "cookie")
    /\ UNCHANGED <<ret, result, hist>>
    /\ HttpUnchangedByLogin
    /\ access' = access
    /\ UNCHANGED <<pageVars, auxVars>>

\* return True iff the jar holds a cookie named userid
_login_attempt_cookie ==
    /\ At("_login_attempt", "cookie")
    /\ Return([page |-> NoPage, flag |-> _cookies.userid])
    /\ hist' = hist
    /\ HttpUnchangedByLogin
    /\ access' = access \cup {<<"main", "_cookies">>}
    /\ UNCHANGED <<pageVars, auxVars>>

(***************************************************************************)
(* The specification of the HTTP interface.                                *)
(***************************************************************************)
\* the image codes a page may hold
DDCodes == {"abc", "xyz"}
DTSCodes == {"v1"}
Codes == DDCodes \cup DTSCodes

\* the dicts dd_threads, dts_threads, self._dd, self._dts
EmptyThreads == [code \in Codes |-> 0]
EmptyEntries == [code \in Codes |-> "absent"]
Keys(map) == {code \in Codes : map[code] # 0}
Entries(map) == {code \in Codes : map[code] # "absent"}

\* no page is being processed
PageIdle ==
    /\ page = <<>>
    /\ ppc = "idle"
    /\ idx = 0
    /\ threads = <<>>
    /\ dd_threads = EmptyThreads
    /\ dts_threads = EmptyThreads
    /\ joined = {}
    /\ _dd = EmptyEntries
    /\ _dts = EmptyEntries
    /\ caches = <<>>

\* ... and no function is being observed
NoPageWork ==
    /\ PageIdle
    /\ waited = NoWaits
    /\ image = "None"
    /\ returned = "None"
    /\ patterns = <<>>
    /\ seek_result = NoSeekResult

Init ==
    /\ HttpInit
    /\ failures_left = MaxOutage
    /\ access = {}
    /\ NoPageWork

Next ==
    \/ CallRequest
    \/ build_opener
    \/ get_user_agent
    \/ wait
    \/ download_error
    \/ download_ok
    \/ request_downloaded
    \/ request_check
    \/ request_redownload
    \/ request_return
    \/ _login_first
    \/ _login_result
    \/ _login_attempt_start
    \/ _login_attempt_post
    \/ _login_attempt_cookie

Spec == Init /\ [][Next]_vars

\* The calling thread runs on (no step of it waits for anything but the
\* network), and a network call that is tried for as long as it takes
\* succeeds in the end.  The parsers need not call request again.
FairSpec ==
    /\ Spec
    /\ WF_vars(build_opener)
    /\ WF_vars(get_user_agent)
    /\ WF_vars(wait)
    /\ WF_vars(download_ok)
    /\ WF_vars(request_downloaded)
    /\ WF_vars(request_check)
    /\ WF_vars(request_redownload)
    /\ WF_vars(request_return)
    /\ WF_vars(_login_first)
    /\ WF_vars(_login_result)
    /\ WF_vars(_login_attempt_start)
    /\ WF_vars(_login_attempt_post)
    /\ WF_vars(_login_attempt_cookie)


(***************************************************************************)
(* The wait specification: authenticated and other requests made back to   *)
(* back by a process that has a session and has made BurstLengths requests *)
(* before, perhaps long ago.  The site answers as to a signed-in user.     *)
(***************************************************************************)
BurstLengths == {0, 11, 49, 199, 510}
IdleTimes == {0, 700, 400000}

\* the rate fields and the clock after one more authenticated call of wait
\* that sleeps the least of its band, made as the call before returns
FastWait(s) ==
    LET ahead == AheadCountOf(s.now, s.count, s.first)
        sleep_time == CHOOSE d \in SleepTimes(TRUE, ahead) :
                          \A e \in SleepTimes(TRUE, ahead) : d <= e
        t == Max(s.now, s.last + sleep_time)
    IN  [first |-> FirstDownloadOf(s.now, s.count, s.first), last |-> t,
         count |-> s.count + 1, now |-> t]

\* ... after n such calls
RECURSIVE FastBurstFrom(_, _)
FastBurstFrom(s, n) ==
    IF n = 0 THEN s
    ELSE LET next == FastWait(s)
         IN  IF next.count = s.count + 1 THEN FastBurstFrom(next, n - 1) ELSE s

\* a process started at Epoch with no statistics, and the bursts of 50, 100,
\* ... 500 calls from there, each computed from the one before
NoBurst == [first |-> 0, last |-> 0, count |-> 0, now |-> Epoch]
Bursts ==
    LET b1 == FastBurstFrom(NoBurst, 50)
        b2 == FastBurstFrom(b1, 50)
        b3 == FastBurstFrom(b2, 50)
        b4 == FastBurstFrom(b3, 50)
        b5 == FastBurstFrom(b4, 50)
        b6 == FastBurstFrom(b5, 50)
        b7 == FastBurstFrom(b6, 50)
        b8 == FastBurstFrom(b7, 50)
        b9 == FastBurstFrom(b8, 50)
        b10 == FastBurstFrom(b9, 50)
    IN  <<NoBurst, b1, b2, b3, b4, b5, b6, b7, b8, b9, b10>>

FastBurst(n) == FastBurstFrom(Bursts[(n \div 50) + 1], n % 50)

WaitInit ==
    /\ _credentials = [username |-> "user", password |-> "secret"]
    /\ _data_dir = "dir"
    /\ _cookies = [jar |-> "LWPCookieJar", userid |-> TRUE]
    /\ _user_agent = "loaded"
    /\ \E n \in BurstLengths, idle \in IdleTimes :
         /\ _first_download = FastBurst(n).first
         /\ _last_download = FastBurst(n).last
         /\ _download_count = FastBurst(n).count
         /\ now = FastBurst(n).now + idle
         /\ stats = n
         /\ stats_file = n
    /\ cookie_file = "userid"
    /\ ua_file = TRUE
    /\ stack = <<>>
    /\ ret = NoRet
    /\ result = [status |-> "idle", error |-> "none", page |-> NoPage]
    /\ hist = [calls |-> 0, markers |-> 0,
               networked |-> FALSE, loginSent |-> FALSE, logins |-> 0, attempts |-> 0,
               relogins |-> 0, reissues |-> 0, served |-> "none",
               auth |-> FALSE, loaded |-> TRUE, stored |-> "userid",
               failed |-> FALSE]
    /\ failures_left = 0
    /\ access = {}
    /\ NoPageWork

\* the response of the site to a signed-in user: no marker
download_signed_in ==
    /\ download_ok
    /\ hist'.markers = hist.markers

WaitNext ==
    \/ CallRequest
    \/ build_opener
    \/ get_user_agent
    \/ wait_recorded
    \/ download_signed_in
    \/ request_downloaded
    \/ request_check

SpecWait == WaitInit /\ [][WaitNext]_vars

(***************************************************************************)
(* The clock specification: wait reads time() once to reset the anchor     *)
(* (line 499) and once more to compute the count (line 501); the process   *)
(* may be held up between the two reads while the clock runs on.           *)
(***************************************************************************)
Stalls == {0, request_avg_time - 1, request_avg_time}

\* the count, with the anchor reset at t1 and the clock read again at t2
AheadCountAt(t1, t2, count, first) ==
    count - ((t2 - FirstDownloadOf(t1, count, first)) \div request_avg_time)

wait_stalled ==
    /\ At("request", "wait")
    /\ \E stall \in Stalls :
         LET t1 == now
             t2 == now + stall
             count == IF Top.auth
                      THEN AheadCountAt(t1, t2, _download_count, _first_download)
                      ELSE 0
         IN  \E sleep_time \in SleepTimes(Top.auth, count) :
               /\ ~Top.auth => stall = 0
               /\ now' = Max(t2, _last_download + sleep_time)
               /\ _last_download' = now'
               /\ IF Top.auth
                  THEN /\ _first_download' = FirstDownload(t1)
                       /\ _download_count' = _download_count + 1
                       /\ returned' = [stall |-> stall, download_count |-> _download_count]
                  ELSE UNCHANGED <<_first_download, _download_count, returned>>
               /\ waited' =
                    LET w == Waited(Top.auth, count, sleep_time, now' - t2, t1)
                    IN  IF Top.auth
                        THEN [last |-> w, auth_before |-> waited.auth_last, auth_last |-> w]
                        ELSE [waited EXCEPT !.last = w]
    /\ stack' = SetTop([Top EXCEPT !.pc = "download"])
    /\ UNCHANGED <<_credentials, _data_dir, _cookies, _user_agent, stats,
                   cookie_file, ua_file, stats_file, ret, result, hist,
                   failures_left>>
    /\ access' = access \cup MainTouches(IF Top.auth THEN RateFields ELSE {"_last_download"})
    /\ UNCHANGED <<pageVars, image, patterns, seek_result>>

ClockNext ==
    \/ CallRequest
    \/ build_opener
    \/ get_user_agent
    \/ wait_stalled
    \/ download_signed_in
    \/ request_downloaded
    \/ request_check

SpecClock == WaitInit /\ [][ClockNext]_vars

(***************************************************************************)
(* The store specification: the session of Spec on a disk whose files may  *)
(* fail to be written (no space, no permission).  No save has a handler,   *)
(* so the IOError of open() or write() leaves request.                     *)
(***************************************************************************)
\* what a failed write leaves of a file: open() failed and the file is as it
\* was, or it was opened (truncated) and holds part of what was written
FailedWrite(before, partly) == {before, partly}

\* request, if auth: _save_cookies raises
save_cookies_error ==
    /\ At("request", "downloaded")
    /\ Top.auth
    /\ _cookies.jar = "LWPCookieJar"
    /\ cookie_file' \in FailedWrite(cookie_file, "corrupt")
    /\ Raise("IOError: cookies")
    /\ UNCHANGED <<_credentials, _data_dir, _cookies, _user_agent,
                   _first_download, _last_download, _download_count, stats,
                   ua_file, stats_file, now, hist, failures_left>>
    /\ access' = access \cup {<<"main", "_cookies">>}
    /\ UNCHANGED <<pageVars, auxVars>>

\* request, if auth: the cookies are saved, stats[today] += 1, _save_stats
\* raises
save_stats_error ==
    /\ At("request", "downloaded")
    /\ Top.auth
    /\ _user_file_name # "None"
    /\ cookie_file' = _save_cookies
    /\ stats' = stats + 1
    /\ stats_file' \in FailedWrite(stats_file, 0)
    /\ Raise("IOError: stats")
    /\ UNCHANGED <<_credentials, _data_dir, _cookies, _user_agent,
                   _first_download, _last_download, _download_count,
                   ua_file, now, hist, failures_left>>
    /\ access' = access \cup {<<"main", "_cookies">>}
    /\ UNCHANGED <<pageVars, auxVars>>

\* build_opener, _get_user_agent: the agent is generated and assigned,
\* _save_user_agent raises
save_user_agent_error ==
    /\ At("request", "user_agent")
    /\ _user_agent = "None"
    /\ _user_file_name # "None"
    /\ ~ua_file
    /\ _user_agent' = "generated"
    /\ ua_file' \in FailedWrite(ua_file, TRUE)
    /\ Raise("IOError: user agent")
    /\ UNCHANGED <<_credentials, _data_dir, _cookies, _first_download,
                   _last_download, _download_count, stats, cookie_file,
                   stats_file, now, hist, failures_left>>
    /\ access' = access \cup {<<"main", "_user_agent">>}
    /\ UNCHANGED <<pageVars, auxVars>>

StoreNext ==
    \/ Next
    \/ save_cookies_error
    \/ save_stats_error
    \/ save_user_agent_error

SpecStore == Init /\ [][StoreNext]_vars

(***************************************************************************)
(* The retry specification: pages that need no authentication, fetched     *)
(* over a network that raises up to MaxFails IOErrors.                     *)
(***************************************************************************)
RetryInit ==
    /\ HttpInit
    /\ failures_left = MaxFails
    /\ access = {}
    /\ NoPageWork

RetryNext ==
    \/ CallRequestNoAuth
    \/ build_opener
    \/ get_user_agent
    \/ wait
    \/ download_error
    \/ download_ok
    \/ request_downloaded
    \/ request_check

SpecRetry == RetryInit /\ [][RetryNext]_vars

(***************************************************************************)
(* SeekCacheOCR._process_page and the ImageDownloader threads              *)
(***************************************************************************)
\* a row of the result table: the code of its CacheDir image and of its
\* CacheInfo image, "None" where the regular expression finds none
Rows == [dd : DDCodes \cup {"None"}, dts : DTSCodes \cup {"None"}]

RECURSIVE SeqsUpTo(_, _)
SeqsUpTo(S, n) ==
    IF n = 0 THEN {<<>>}
    ELSE LET shorter == SeqsUpTo(S, n - 1)
         IN  shorter \cup {Append(q, x) : q \in {r \in shorter : Len(r) = n - 1}, x \in S}

\* the codes are opaque: the pages are taken up to renaming, the first
\* CacheDir code met being "abc"
Pages == {rows \in SeqsUpTo(Rows, MaxRows) :
            \A i \in 1..Len(rows) :
                rows[i].dd = "xyz" => \E j \in 1..(i - 1) : rows[j].dd = "abc"}

\* what the image URLs serve
ImageData == {"empty", "garbage", "png_ok", "png_nan"}

\* _pcre("seek_dd").findall(data) and _pcre("seek_dts").findall(data): the
\* codes in the order of the rows, repeated as often as they occur
RECURSIVE findall(_, _)
findall(kind, rows) ==
    IF rows = <<>> THEN <<>>
    ELSE LET code == IF kind = "dd" THEN Head(rows).dd ELSE Head(rows).dts
         IN  (IF code = "None" THEN <<>> ELSE <<code>>) \o findall(kind, Tail(rows))

CodesFound(kind) == {findall(kind, page)[i] : i \in 1..Len(findall(kind, page))}

\* ImageDownloader.__init__ followed by start(): run is at its first line
ImageDownloader(kind, code) ==
    [kind |-> kind, code |-> code, pc |-> "build_opener", retryTime |-> 1,
     slept |-> 0, fails |-> 0, data |-> "None", image |-> "None"]

\* mutant: a thread for every occurrence of a code
HasThread_Never(map, code) == FALSE

\* "code not in dd_threads", negated
HasThread(map, code) == map[code] # 0

\* mutant: the thread is started and not remembered
InsertThread_Dropped(map, code, thread) == map

\* dd_threads[code] = thread
InsertThread(map, code, thread) == [map EXCEPT ![code] = thread]

\* mutant: join returns at once
join_NoWait(thread) == TRUE

\* Thread.join returns when run has ended
join(thread) == threads[thread].pc = "finished"

MainTouchesPage(fields) == access' = access \cup MainTouches(fields)

\* _get_page: the page is requested without authentication
_get_page ==
    /\ hist.calls = 0
    /\ CallRequestNoAuth

\* _get_page hands the downloaded page to _process_page, line 1317
_process_page ==
    /\ ppc = "idle"
    /\ stack = <<>>
    /\ result.status = "returned"
    /\ page' \in Pages
    /\ ppc' = "dd_loop"
    /\ idx' = 1
    /\ dd_threads' = EmptyThreads
    /\ MainTouchesPage({"dd_threads"})
    /\ UNCHANGED <<httpVars, auxVars, threads, dts_threads, joined, _dd, _dts, caches>>

\* one round of "for code in findall": a code without a thread gets one,
\* which is started; the end of the loop leads to the next statement
FindLoop(kind, map, loop, insert, next) ==
    LET found == findall(kind, page) IN
    /\ ppc = loop
    /\ IF idx > Len(found)
       THEN /\ ppc' = next
            /\ idx' = 1
            /\ UNCHANGED threads
       ELSE IF HasThread(map, found[idx])
       THEN /\ idx' = idx + 1
            /\ UNCHANGED <<ppc, threads>>
       ELSE /\ threads' = Append(threads, ImageDownloader(kind, found[idx]))
            /\ ppc' = insert
            /\ UNCHANGED idx

process_dd_loop ==
    /\ FindLoop("dd", dd_threads, "dd_loop", "dd_insert", "dts_loop")
    /\ dts_threads' = IF ppc' = "dts_loop" THEN EmptyThreads ELSE dts_threads
    /\ MainTouchesPage({"dd_threads"})
    /\ UNCHANGED <<httpVars, auxVars, page, dd_threads, joined, _dd, _dts, caches>>

process_dd_insert ==
    /\ ppc = "dd_insert"
    /\ dd_threads' = InsertThread(dd_threads, findall("dd", page)[idx], Len(threads))
    /\ ppc' = "dd_loop"
    /\ idx' = idx + 1
    /\ MainTouchesPage({"dd_threads"})
    /\ UNCHANGED <<httpVars, auxVars, page, threads, dts_threads, joined, _dd, _dts, caches>>

process_dts_loop ==
    /\ FindLoop("dts", dts_threads, "dts_loop", "dts_insert", "count")
    /\ MainTouchesPage({"dts_threads"})
    /\ UNCHANGED <<httpVars, auxVars, page, dd_threads, dts_threads, joined, _dd, _dts, caches>>

process_dts_insert ==
    /\ ppc = "dts_insert"
    /\ dts_threads' = InsertThread(dts_threads, findall("dts", page)[idx], Len(threads))
    /\ ppc' = "dts_loop"
    /\ idx' = idx + 1
    /\ MainTouchesPage({"dts_threads"})
    /\ UNCHANGED <<httpVars, auxVars, page, threads, dd_threads, joined, _dd, _dts, caches>>

\* _parse_count, _parse_post_data, self._dd = {}
process_count ==
    /\ ppc = "count"
    /\ ppc' = "dd_join"
    /\ _dd' = EmptyEntries
    /\ joined' = {}
    /\ access' = access
    /\ UNCHANGED <<httpVars, auxVars, page, idx, threads, dd_threads, dts_threads, _dts, caches>>

\* one round of "for code in dd_threads": join, then keep the image; after
\* the last round self._dts = {}
process_dd_join ==
    /\ ppc = "dd_join"
    /\ IF joined = Keys(dd_threads)
       THEN /\ ppc' = "dts_join"
            /\ _dts' = EmptyEntries
            /\ joined' = {}
            /\ UNCHANGED _dd
       ELSE \E code \in Keys(dd_threads) \ joined :
              /\ join(dd_threads[code])
              /\ _dd' = [_dd EXCEPT ![code] = threads[dd_threads[code]].image]
              /\ joined' = joined \cup {code}
              /\ UNCHANGED <<ppc, _dts>>
    /\ MainTouchesPage({"dd_threads"})
    /\ UNCHANGED <<httpVars, auxVars, page, idx, threads, dd_threads, dts_threads, caches>>

\* one round of "for code in dts_threads"; after the last round
\* _parse_caches begins
process_dts_join ==
    /\ ppc = "dts_join"
    /\ IF joined = Keys(dts_threads)
       THEN /\ ppc' = "parse"
            /\ idx' = 1
            /\ caches' = <<>>
            /\ UNCHANGED <<_dts, joined>>
       ELSE \E code \in Keys(dts_threads) \ joined :
              /\ join(dts_threads[code])
              /\ _dts' = [_dts EXCEPT ![code] = threads[dts_threads[code]].image]
              /\ joined' = joined \cup {code}
              /\ UNCHANGED <<ppc, idx, caches>>
    /\ MainTouchesPage({"dts_threads"})
    /\ UNCHANGED <<httpVars, auxVars, page, threads, dd_threads, dts_threads, _dd>>

\* SeekCacheOCR._get_dd on the entry of a code: the entry afterwards and
\* what is returned.  An Image is split and matched against the patterns:
\* the entry becomes None, and then the decoded tuple if every glyph matches
\* and the distance reads as a number with a unit; float() raises ValueError
\* on glyphs that match and do not spell a number.
IsImage(entry) == entry \in {"Image()", "png_ok", "png_nan"}

\* mutant: self._dd[code] = None is done before the test isinstance(.., Image)
_get_dd_Forgetful(entry) ==
    IF ~IsImage(entry) THEN [entry |-> "None", result |-> entry]
    ELSE IF entry = "png_ok" THEN [entry |-> "value", result |-> "value"]
    ELSE IF entry = "png_nan" THEN [entry |-> "None", result |-> "ValueError"]
    ELSE [entry |-> "None", result |-> "None"]

_get_dd(entry) ==
    IF ~IsImage(entry) THEN [entry |-> entry, result |-> entry]
    ELSE IF entry = "png_ok" THEN [entry |-> "value", result |-> "value"]
    ELSE IF entry = "png_nan" THEN [entry |-> "None", result |-> "ValueError"]
    ELSE [entry |-> "None", result |-> "None"]

\* SeekCacheOCR._get_dts, of the same build
_get_dts(entry) ==
    IF ~IsImage(entry) THEN [entry |-> entry, result |-> entry]
    ELSE IF entry = "png_ok" THEN [entry |-> "value", result |-> "value"]
    ELSE IF entry = "png_nan" THEN [entry |-> "None", result |-> "ValueError"]
    ELSE [entry |-> "None", result |-> "None"]

NoLookup == [entry |-> "absent", result |-> "None"]

\* mutant: the tuple is unpacked without the test for None
HasFields_Unchecked(value) == IF value = "None" THEN "TypeError" ELSE "yes"

\* "if dd is not None: cache[...] = dd", else the error is logged
HasFields(value) == IF value = "None" THEN "no" ELSE "yes"

\* _parse_caches: one row of the table goes through _parse_cache_record and
\* its record is appended; after the last row _process_page returns
_parse_caches ==
    /\ ppc = "parse"
    /\ IF idx > Len(page)
       THEN /\ ppc' = "done"
            /\ UNCHANGED <<idx, _dd, _dts, caches>>
       ELSE LET row == page[idx]
                dd == IF row.dd = "None" THEN NoLookup ELSE _get_dd(_dd[row.dd])
                dts == IF row.dts = "None" THEN NoLookup ELSE _get_dts(_dts[row.dts])
                distance == HasFields(dd.result)
                difficulty == HasFields(dts.result)
            IN  /\ _dd' = IF row.dd = "None" THEN _dd
                          ELSE [_dd EXCEPT ![row.dd] = dd.entry]
                /\ IF dd.result = "ValueError" \/ distance = "TypeError"
                   THEN /\ ppc' = "raised"
                        /\ UNCHANGED <<idx, _dts, caches>>
                   ELSE /\ _dts' = IF row.dts = "None" THEN _dts
                                   ELSE [_dts EXCEPT ![row.dts] = dts.entry]
                        /\ IF dts.result = "ValueError" \/ difficulty = "TypeError"
                           THEN /\ ppc' = "raised"
                                /\ UNCHANGED <<idx, caches>>
                           ELSE /\ caches' = Append(caches,
                                                    [distance |-> distance = "yes",
                                                     difficulty |-> difficulty = "yes"])
                                /\ idx' = idx + 1
                                /\ UNCHANGED ppc
    /\ access' = access
    /\ UNCHANGED <<httpVars, auxVars, page, threads, dd_threads, dts_threads, joined>>

(***************************************************************************)
(* ImageDownloader.run                                                     *)
(***************************************************************************)
Running(thread) == thread \in 1..Len(threads) /\ threads[thread].pc # "finished"

ThreadUnchanged == UNCHANGED <<page, ppc, idx, dd_threads, dts_threads, joined,
                               _dd, _dts, caches, auxVars>>

\* mutant: the thread fetches with request, which waits before it downloads
run_build_opener_Request(thread) ==
    /\ thread \in 1..Len(threads)
    /\ threads[thread].pc = "build_opener"
    /\ _user_agent' = _get_user_agent.agent
    /\ ua_file' = _get_user_agent.file
    /\ now' = Max(now, _last_download + 1)
    /\ _last_download' = now'
    /\ threads' = [threads EXCEPT ![thread].pc = "download"]
    /\ access' = access \cup {<<"task", "_user_agent">>, <<"task", "_last_download">>}
    /\ ThreadUnchanged
    /\ UNCHANGED <<_credentials, _data_dir, _cookies, _first_download,
                   _download_count, stats, cookie_file,
                   stats_file, stack, ret, result, hist, failures_left>>

\* opener = self.http.build_opener(): auth is False, the cookies are left
\* alone, the headers take the user agent
run_build_opener(thread) ==
    /\ thread \in 1..Len(threads)
    /\ threads[thread].pc = "build_opener"
    /\ _user_agent' = _get_user_agent.agent
    /\ ua_file' = _get_user_agent.file
    /\ threads' = [threads EXCEPT ![thread].pc = "download"]
    /\ access' = access \cup {<<"task", "_user_agent">>}
    /\ ThreadUnchanged
    /\ UNCHANGED <<_credentials, _data_dir, _cookies, _first_download,
                   _last_download, _download_count, stats, cookie_file,
                   stats_file, now, stack, ret, result, hist, failures_left>>

\* download_url in the thread: IOError, sleep, retry
run_download_error(thread) ==
    /\ thread \in 1..Len(threads)
    /\ threads[thread].pc = "download"
    /\ failures_left > 0
    /\ failures_left' = failures_left - 1
    /\ threads' = [threads EXCEPT ![thread] = download_url_failed(@)]
    /\ now' = now + threads[thread].retryTime
    /\ access' = access
    /\ ThreadUnchanged
    /\ UNCHANGED <<_credentials, _data_dir, _cookies, _user_agent,
                   _first_download, _last_download, _download_count, stats,
                   cookie_file, ua_file, stats_file, stack, ret, result, hist>>

\* Image.from_data: no bytes give the empty image, bytes that are no PNG
\* make png.Reader raise, a PNG gives its pixels
from_data(data) ==
    IF data = "empty" THEN "Image()"
    ELSE IF data = "garbage" THEN "Exception"
    ELSE data

\* try: self.image = Image.from_data(self.data)
\* except Exception: self.image = Image()
run_image(data) ==
    IF from_data(data) = "Exception" THEN "Image()" ELSE from_data(data)

\* the rest of run once the bytes are served: self.data, self.image, both
\* fields of the thread itself, and the thread ends
run_download_ok(thread) ==
    /\ thread \in 1..Len(threads)
    /\ threads[thread].pc = "download"
    /\ \E data \in ImageData :
         threads' = [threads EXCEPT ![thread].data = data,
                                    ![thread].image = run_image(data),
                                    ![thread].pc = "finished",
                                    ![thread].retryTime = 1,
                                    ![thread].slept = 0]
    /\ access' = access
    /\ ThreadUnchanged
    /\ UNCHANGED httpVars

(***************************************************************************)
(* The page specification: one result page is requested and processed      *)
(***************************************************************************)
PageInit ==
    /\ HttpInit
    /\ _credentials = [username |-> "user", password |-> "secret"]
    /\ _data_dir = "dir"
    /\ cookie_file = "absent"
    /\ ~ua_file
    /\ failures_left = MaxOutage
    /\ access = {}
    /\ NoPageWork

PageNext ==
    \/ _get_page
    \/ build_opener
    \/ get_user_agent
    \/ wait
    \/ download_error
    \/ download_ok
    \/ request_downloaded
    \/ request_check
    \/ _process_page
    \/ process_dd_loop
    \/ process_dd_insert
    \/ process_dts_loop
    \/ process_dts_insert
    \/ process_count
    \/ process_dd_join
    \/ process_dts_join
    \/ _parse_caches
    \/ \E thread \in 1..Len(threads) : run_build_opener(thread)
    \/ \E thread \in 1..Len(threads) : run_download_error(thread)
    \/ \E thread \in 1..Len(threads) : run_download_ok(thread)

SpecPage == PageInit /\ [][PageNext]_vars

(***************************************************************************)
(* Image: pixels is a list of rows, each a list of pixels.  A pixel is one *)
(* of Pixels; an emptiness predicate (the argument `empty`) is the set of  *)
(* the pixels it holds empty.  Coordinates count from 0 as in the code.    *)
(***************************************************************************)
Pixels == {"clear", "ink"}

\* Image.__init__
Image(pixels) ==
    [pixels |-> pixels,
     width |-> IF Len(pixels) > 0 THEN Len(pixels[1]) ELSE 0,
     height |-> Len(pixels)]

\* self.pixels[y][x]
PixelAt(self, x, y) == self.pixels[y + 1][x + 1]

\* mutant: the row `bottom` and the column `right` are left out
cut_Exclusive(self, left, top, right, bottom) ==
    LET y0 == Max(top, 0)
        y1 == Min(bottom, self.height)
        x0 == Max(left, 0)
        x1 == Min(right, self.width)
    IN  Image([i \in 1..(y1 - y0) |->
                  [j \in 1..(x1 - x0) |-> PixelAt(self, x0 + j - 1, y0 + i - 1)]])

\* Image.cut: rows max(top, 0) .. min(bottom+1, height) - 1 and columns
\* max(left, 0) .. min(right+1, width) - 1
cut(self, left, top, right, bottom) ==
    LET y0 == Max(top, 0)
        y1 == Min(bottom + 1, self.height)
        x0 == Max(left, 0)
        x1 == Min(right + 1, self.width)
    IN  Image([i \in 1..(y1 - y0) |->
                  [j \in 1..(x1 - x0) |-> PixelAt(self, x0 + j - 1, y0 + i - 1)]])

\* the inner loops of vsplit and hsplit: is_empty of row y, of column x
row_is_empty(self, empty, y) ==
    \A x \in 0..(self.width - 1) : PixelAt(self, x, y) \in empty
column_is_empty(self, empty, x) ==
    \A y \in 0..(self.height - 1) : PixelAt(self, x, y) \in empty

\* top, bottom, left, right = None
NoCoord == -1

\* Image.vsplit from row y on, with the parts, top and bottom it has so far
RECURSIVE vsplit_loop(_, _, _, _, _, _)
vsplit_loop(self, empty, y, parts, top, bottom) ==
    IF y = self.height
    THEN IF top # NoCoord
         THEN Append(parts, cut(self, 0, top, self.width - 1, bottom))
         ELSE parts
    ELSE IF ~row_is_empty(self, empty, y)
    THEN vsplit_loop(self, empty, y + 1, parts, IF top = NoCoord THEN y ELSE top, y)
    ELSE IF top # NoCoord
    THEN vsplit_loop(self, empty, y + 1,
                     Append(parts, cut(self, 0, top, self.width - 1, bottom)),
                     NoCoord, NoCoord)
    ELSE vsplit_loop(self, empty, y + 1, parts, top, bottom)

vsplit(self, empty) == vsplit_loop(self, empty, 0, <<>>, NoCoord, NoCoord)

\* Image.hsplit from column x on
RECURSIVE hsplit_loop(_, _, _, _, _, _)
hsplit_loop(self, empty, x, parts, left, right) ==
    IF x = self.width
    THEN IF left # NoCoord
         THEN Append(parts, cut(self, left, 0, right, self.height - 1))
         ELSE parts
    ELSE IF ~column_is_empty(self, empty, x)
    THEN hsplit_loop(self, empty, x + 1, parts, IF left = NoCoord THEN x ELSE left, x)
    ELSE IF left # NoCoord
    THEN hsplit_loop(self, empty, x + 1,
                     Append(parts, cut(self, left, 0, right, self.height - 1)),
                     NoCoord, NoCoord)
    ELSE hsplit_loop(self, empty, x + 1, parts, left, right)

hsplit(self, empty) == hsplit_loop(self, empty, 0, <<>>, NoCoord, NoCoord)

(***************************************************************************)
(* The image specification: vsplit or hsplit is applied to an image of up  *)
(* to MaxSide rows and columns under any emptiness predicate.              *)
(***************************************************************************)
\* the images: Image() and the grids of 1..MaxSide rows of one width
\* 0..MaxSide (cut gives rows of no pixels when right < left)
Grids ==
    {<<>>} \cup UNION {[1..h -> [1..w -> Pixels]] : h \in 1..MaxSide, w \in 0..MaxSide}

\* the process is idle: nothing of the session or of a page is in use
Idle ==
    /\ HttpInit
    /\ _credentials = [username |-> "None", password |-> "None"]
    /\ _data_dir = "None"
    /\ failures_left = 0
    /\ access = {}
    /\ PageIdle
    /\ waited = NoWaits

NotApplied == [method |-> "none", parts |-> <<>>]

ImageInit ==
    /\ Idle
    /\ \E pixels \in Grids, empty \in SUBSET Pixels :
         image = [self |-> Image(pixels), empty |-> empty]
    /\ returned = NotApplied
    /\ patterns = <<>>
    /\ seek_result = NoSeekResult

Unused == UNCHANGED <<httpVars, access, pageVars, waited>>

call_vsplit ==
    /\ returned = NotApplied
    /\ returned' = [method |-> "vsplit", parts |-> vsplit(image.self, image.empty)]
    /\ UNCHANGED <<image, patterns, seek_result>>
    /\ Unused

call_hsplit ==
    /\ returned = NotApplied
    /\ returned' = [method |-> "hsplit", parts |-> hsplit(image.self, image.empty)]
    /\ UNCHANGED <<image, patterns, seek_result>>
    /\ Unused

ImageNext ==
    \/ call_vsplit
    \/ call_hsplit

SpecImage == ImageInit /\ [][ImageNext]_vars

(***************************************************************************)
(* SeekCacheOCR._get_dd and _get_dts on the glyphs of an image.  An image  *)
(* is taken as vsplit and hsplit cut it: bands (the parts of vsplit) of    *)
(* glyphs (the parts of hsplit), a glyph being the bitmask looked up in    *)
(* the dictionary.  Texts are sequences of characters.  The dictionary     *)
(* file is not part of the sources: it is taken to hold one bitmask for    *)
(* each character of Chars and for each size.                              *)
(***************************************************************************)
Digits == {"0", "1", "2", "3", "5"}
Chars == Digits \cup {".", "/", "m", "i", "f", "t", "k", "H", "e", "r", "N", "E", "S"}

\* the bitmask of the glyph that draws a character, and one the dictionary
\* does not hold
Bitmask(char) == [bitmask |-> char]
Unknown == [bitmask |-> "?"]
\* the glyphs that draw a text; "?" stands for an unknown glyph
Glyphs(text) ==
    [i \in 1..Len(text) |-> IF text[i] = "?" THEN Unknown ELSE Bitmask(text[i])]

\* self.patterns as _load_patterns fills it
_load_patterns ==
    [pattern \in {Bitmask(char) : char \in Chars \cup {"micro", "Regular"}} |->
        pattern.bitmask]

\* SeekCacheOCR._match_pattern: self.patterns.get(pattern, None)
_match_pattern(pattern) ==
    IF pattern \in DOMAIN patterns THEN patterns[pattern] ELSE "None"

\* dict.setdefault(key, None) in place of dict.get(key, None)
patterns_after_get_Setdefault(table, pattern) ==
    [key \in DOMAIN table \cup {pattern} |->
        IF key \in DOMAIN table THEN table[key] ELSE "None"]
\* self.patterns after self.patterns.get(pattern, None): get stores nothing
patterns_after_get(table, pattern) == table

\* the patterns the loop over the parts of a band looks up: all up to the
\* first one that is not known
RECURSIVE looked_up(_)
looked_up(parts) ==
    IF parts = <<>> THEN <<>>
    ELSE IF _match_pattern(Head(parts)) = "None" THEN <<Head(parts)>>
    ELSE <<Head(parts)>> \o looked_up(Tail(parts))

\* self.patterns after the lookups of a recognition
RECURSIVE patterns_after(_, _)
patterns_after(table, lookups) ==
    IF lookups = <<>> THEN table
    ELSE patterns_after(patterns_after_get(table, Head(lookups)), Tail(lookups))

\* the loop over the parts of a band: the characters are appended to the
\* text, the function returns None at the first pattern that is not known
RECURSIVE match_parts(_, _)
match_parts(parts, text) ==
    IF parts = <<>> THEN [known |-> TRUE, text |-> text]
    ELSE IF _match_pattern(Head(parts)) = "None" THEN [known |-> FALSE, text |-> <<>>]
    ELSE match_parts(Tail(parts), Append(text, _match_pattern(Head(parts))))

\* str.endswith
endswith(text, suffix) ==
    /\ Len(text) >= Len(suffix)
    /\ SubSeq(text, Len(text) - Len(suffix) + 1, Len(text)) = suffix

\* text[0:-2]
WithoutUnit(text) == SubSeq(text, 1, Len(text) - 2)

\* a number with `decimals` digits after the point: mantissa / 10^decimals
Decimal(mantissa, decimals) == [mantissa |-> mantissa, decimals |-> decimals]

DigitValue(char) ==
    CASE char = "0" -> 0 [] char = "1" -> 1 [] char = "2" -> 2 [] char = "3" -> 3
      [] char = "5" -> 5

\* the digits of a text read as one integer
RECURSIVE Mantissa(_, _)
Mantissa(text, value) ==
    IF text = <<>> THEN value
    ELSE IF Head(text) = "." THEN Mantissa(Tail(text), value)
    ELSE Mantissa(Tail(text), 10 * value + DigitValue(Head(text)))

\* float(text) of a text of the characters of Chars: digits with at most one
\* point and at least one digit give the number, anything else (the empty
\* text, a lone point, two points, a letter, a slash) raises ValueError; no
\* text of the model holds a sign, an exponent between digits, nan or inf
float(text) ==
    LET points == {i \in 1..Len(text) : text[i] = "."}
        digits == {i \in 1..Len(text) : text[i] \in Digits}
    IN  IF /\ points \cup digits = 1..Len(text)
           /\ Cardinality(points) <= 1
           /\ digits # {}
        THEN [raised |-> "none",
              value |-> Decimal(Mantissa(text, 0),
                                IF points = {} THEN 0
                                ELSE Len(text) - (CHOOSE i \in points : TRUE))]
        ELSE [raised |-> "ValueError", value |-> Decimal(0, 0)]

\* mutant: miles are converted as feet
MilesToKm_AsFeet(number) == Decimal(number.mantissa * 3048, number.decimals + 7)

\* float(distance[0:-2]) * 1.609344
MilesToKm(number) == Decimal(number.mantissa * 1609344, number.decimals + 6)

\* float(distance[0:-2]) * 0.0003048
FeetToKm(number) == Decimal(number.mantissa * 3048, number.decimals + 7)

\* mutant: dt.split("/", 1), the text is cut at its first slash only
split_First(text) ==
    LET cuts == {i \in 1..Len(text) : text[i] = "/"}
        first == CHOOSE i \in cuts : \A j \in cuts : i <= j
    IN  IF cuts = {} THEN <<text>>
        ELSE <<SubSeq(text, 1, first - 1), SubSeq(text, first + 1, Len(text))>>

\* dt.split("/"): the texts between the slashes
split(text) ==
    LET cuts == {i \in 1..Len(text) : text[i] = "/"}
        CutAt(k) == CHOOSE i \in cuts \cup {0, Len(text) + 1} :
                        Cardinality({j \in cuts \cup {0} : j < i}) = k
    IN  [k \in 1..(Cardinality(cuts) + 1) |->
            SubSeq(text, CutAt(k - 1) + 1, CutAt(k) - 1)]

\* the values of an entry of self._dd / self._dts, and what is returned
NoneValue == [type |-> "None"]
ImageOf(bands) == [type |-> "Image", bands |-> bands]
DDValue(distance, direction) ==
    [type |-> "tuple", distance |-> distance, direction |-> direction]
DTSValue(diff, terr, size) ==
    [type |-> "tuple", difficulty |-> diff, terrain |-> terr, size |-> size]

\* how a call ends: the exception raised if any, the value returned, and the
\* entry self._dd[code] / self._dts[code] afterwards
Outcome(raised, value, entry) == [raised |-> raised, result |-> value, entry |-> entry]
ReturnedNone == Outcome("none", NoneValue, NoneValue)
RaisedValueError == Outcome("ValueError", NoneValue, NoneValue)

\* mutant: img_dir.pop(), the last part is dropped
pop_first_Last(parts) == SubSeq(parts, 1, Len(parts) - 1)

\* img_dir.pop(0): the parts of the direction band without the first
pop_first(parts) == Tail(parts)

\* SeekCacheOCR._get_dd on the entry of its code
recognize_dd(entry) ==
    IF entry.type # "Image" THEN Outcome("none", entry, entry)
    ELSE IF Len(entry.bands) # 2 THEN ReturnedNone
    ELSE LET \* img_dir.pop(0): the first part is not looked up
             direction == match_parts(pop_first(entry.bands[1]), <<>>)
             distance == match_parts(entry.bands[2], <<>>)
             number == float(WithoutUnit(distance.text))
         IN  IF ~direction.known THEN ReturnedNone
             ELSE IF ~distance.known THEN ReturnedNone
             ELSE IF endswith(distance.text, <<"m", "i">>)
             THEN IF number.raised # "none" THEN RaisedValueError
                  ELSE LET value == DDValue(MilesToKm(number.value), direction.text)
                       IN  Outcome("none", value, value)
             ELSE IF endswith(distance.text, <<"f", "t">>)
             THEN IF number.raised # "none" THEN RaisedValueError
                  ELSE LET value == DDValue(FeetToKm(number.value), direction.text)
                       IN  Outcome("none", value, value)
             ELSE IF distance.text = <<"H", "e", "r", "e">>
             THEN LET value == DDValue(Decimal(0, 0), direction.text)
                  IN  Outcome("none", value, value)
             ELSE ReturnedNone

\* the bitmask of the whole second band of a CacheInfo image
SizePattern(band) == IF Len(band) = 1 THEN band[1] ELSE Unknown

\* SeekCacheOCR._get_dts on the entry of its code
recognize_dts(entry) ==
    IF entry.type # "Image" THEN Outcome("none", entry, entry)
    ELSE IF Len(entry.bands) # 2 THEN ReturnedNone
    ELSE LET dt == match_parts(entry.bands[1], <<>>)
             pair == split(dt.text)
             diff == float(pair[1])
             terr == float(pair[2])
             size == _match_pattern(SizePattern(entry.bands[2]))
         IN  IF ~dt.known THEN ReturnedNone
             ELSE IF Len(pair) # 2 THEN ReturnedNone
             ELSE IF diff.raised # "none" \/ terr.raised # "none" THEN RaisedValueError
             ELSE IF size = "None" THEN ReturnedNone
             ELSE LET value == DTSValue(diff.value, terr.value, size)
                  IN  Outcome("none", value, value)

\* the patterns _get_dd and _get_dts look up, in the order of the calls of
\* _match_pattern
lookups_dd(entry) ==
    IF entry.type # "Image" THEN <<>>
    ELSE IF Len(entry.bands) # 2 THEN <<>>
    ELSE IF ~match_parts(Tail(entry.bands[1]), <<>>).known
    THEN looked_up(Tail(entry.bands[1]))
    ELSE looked_up(Tail(entry.bands[1])) \o looked_up(entry.bands[2])

lookups_dts(entry) ==
    IF entry.type # "Image" THEN <<>>
    ELSE IF Len(entry.bands) # 2 THEN <<>>
    ELSE LET dt == match_parts(entry.bands[1], <<>>)
             pair == split(dt.text)
         IN  IF ~dt.known THEN looked_up(entry.bands[1])
             ELSE IF Len(pair) # 2 THEN looked_up(entry.bands[1])
             ELSE IF float(pair[1]).raised # "none" \/ float(pair[2]).raised # "none"
             THEN looked_up(entry.bands[1])
             ELSE Append(looked_up(entry.bands[1]), SizePattern(entry.bands[2]))

(***************************************************************************)
(* The recognition specification: _parse_cache_record looks one code up,   *)
(* whose entry is None or an image of any bands of up to MaxGlyphs glyphs. *)
(***************************************************************************)
\* the first band of a CacheDir image: a first glyph, then the direction
Directions ==
    {Glyphs(<<"?">> \o text) : text \in SeqsUpTo({"N", "E", "?"}, 2)}

\* the second band: a number of up to MaxGlyphs glyphs and a unit, and the
\* texts Here and 12.5mi
Distances ==
    {Glyphs(text) : text \in
        ({number \o unit :
            number \in SeqsUpTo({"0", "1", ".", "?"}, MaxGlyphs),
            unit \in {<<"m", "i">>, <<"f", "t">>, <<"k", "m">>, <<>>}} \ {<<>>})
        \cup {<<"H", "e", "r", "e">>, <<"1", "2", ".", "5", "m", "i">>}}

\* the first band of a CacheInfo image: D/T; the second: the size
DTs ==
    {Glyphs(text) : text \in
        (SeqsUpTo({"1", "5", ".", "/", "?"}, MaxGlyphs) \ {<<>>})
        \cup {<<"1", ".", "5", "/", "2", ".", "5">>}}

DDEntries ==
    {NoneValue, ImageOf(<<>>), ImageOf(<<Glyphs(<<"?", "N">>)>>),
     ImageOf(<<Glyphs(<<"?", "N">>), Glyphs(<<"1", "m", "i">>), Glyphs(<<"1">>)>>),
     ImageOf(<<Glyphs(<<"N", "S", "E">>), Glyphs(<<"1", "m", "i">>)>>)}
    \cup {ImageOf(<<direction, distance>>) :
            direction \in Directions, distance \in Distances}

DTSEntries ==
    {NoneValue, ImageOf(<<>>), ImageOf(<<Glyphs(<<"1", "/", "1">>)>>),
     ImageOf(<<Glyphs(<<"1", "/", "1">>), Glyphs(<<"micro">>), Glyphs(<<"1">>)>>),
     ImageOf(<<Glyphs(<<"3", "/", "1", ".", "5">>), Glyphs(<<"Regular">>)>>)}
    \cup {ImageOf(<<dt, size>>) : dt \in DTs, size \in {Glyphs(<<"micro">>), Glyphs(<<"?">>)}}

NotCalled ==
    [method |-> "none", raised |-> "none", result |-> NoneValue,
     entry |-> NoneValue, fields |-> {}]

OCRInit ==
    /\ Idle
    /\ \/ \E entry \in DDEntries : image = [kind |-> "dd", entry |-> entry]
       \/ \E entry \in DTSEntries : image = [kind |-> "dts", entry |-> entry]
    /\ returned = NotCalled
    /\ patterns = _load_patterns
    /\ seek_result = NoSeekResult

\* _parse_cache_record: dd = self._get_dd(code); if dd is not None:
\* cache["distance"], cache["direction"] = dd
parse_cache_record_dd ==
    /\ returned = NotCalled
    /\ image.kind = "dd"
    /\ LET dd == recognize_dd(image.entry)
       IN  returned' = [method |-> "_get_dd", raised |-> dd.raised,
                        result |-> dd.result, entry |-> dd.entry,
                        fields |-> IF dd.raised = "none" /\ dd.result # NoneValue
                                   THEN {"distance", "direction"} ELSE {}]
    /\ patterns' = patterns_after(patterns, lookups_dd(image.entry))
    /\ UNCHANGED <<image, seek_result>>
    /\ Unused

\* _parse_cache_record: dts = self._get_dts(code); if dts is not None:
\* cache["difficulty"], cache["terrain"], cache["size"] = dts
parse_cache_record_dts ==
    /\ returned = NotCalled
    /\ image.kind = "dts"
    /\ LET dts == recognize_dts(image.entry)
       IN  returned' = [method |-> "_get_dts", raised |-> dts.raised,
                        result |-> dts.result, entry |-> dts.entry,
                        fields |-> IF dts.raised = "none" /\ dts.result # NoneValue
                                   THEN {"difficulty", "terrain", "size"} ELSE {}]
    /\ patterns' = patterns_after(patterns, lookups_dts(image.entry))
    /\ UNCHANGED <<image, seek_result>>
    /\ Unused

OCRNext ==
    \/ parse_cache_record_dd
    \/ parse_cache_record_dts

SpecOCR == OCRInit /\ [][OCRNext]_vars

(***************************************************************************)
(* The lookup specification: _parse_caches goes from record to record, the *)
(* recognitions following each other on one SeekCacheOCR object.           *)
(***************************************************************************)
NextEntries ==
    {[kind |-> "dd", entry |-> NoneValue],
     [kind |-> "dd", entry |-> ImageOf(<<Glyphs(<<"?", "N", "E">>), Glyphs(<<"1", ".", "1", "m", "i">>)>>)],
     [kind |-> "dd", entry |-> ImageOf(<<Glyphs(<<"?", "N", "?">>), Glyphs(<<"1", "m", "i">>)>>)],
     [kind |-> "dd", entry |-> ImageOf(<<Glyphs(<<"?", "N">>), Glyphs(<<"1", "?", "f", "t">>)>>)],
     [kind |-> "dts", entry |-> ImageOf(<<Glyphs(<<"1", "/", "5">>), Glyphs(<<"micro">>)>>)],
     [kind |-> "dts", entry |-> ImageOf(<<Glyphs(<<"1", "/", "5">>), Glyphs(<<"?">>)>>)],
     [kind |-> "dts", entry |-> ImageOf(<<Glyphs(<<"1", "?", "5">>), Glyphs(<<"micro">>)>>)]}

\* _parse_caches: the loop goes on to the next record of the page
next_record ==
    /\ returned # NotCalled
    /\ idx < MaxRows
    /\ idx' = idx + 1
    /\ image' \in NextEntries
    /\ returned' = NotCalled
    /\ UNCHANGED <<httpVars, access, page, ppc, threads, dd_threads, dts_threads,
                   joined, _dd, _dts, caches, waited, patterns, seek_result>>

LookupNext ==
    \/ parse_cache_record_dd
    \/ parse_cache_record_dts
    \/ next_record

SpecLookup == OCRInit /\ [][LookupNext]_vars

(***************************************************************************)
(* Claims                                                                  *)
(***************************************************************************)
Frames == {stack[i] : i \in 1..Len(stack)}

\* the delay slept after the (n+1)-th failure: 1, 5, 25, 125, 600, 600, ...
BackoffDelay(n) == IF n < 4 THEN 5^n ELSE 600

RECURSIVE TotalBackoff(_)
TotalBackoff(n) == IF n = 0 THEN 0 ELSE TotalBackoff(n - 1) + BackoffDelay(n - 1)

\* C1: download_url retries with the delays 1, 5, 25, 125, 600, 600, ...:
\* after n failures the next delay is BackoffDelay(n), never above 600, the
\* time slept so far is their sum, and after exactly 3 failures and a success
\* the payload served is returned after 1 + 5 + 25 seconds of backoff.
C1_Backoff ==
    \A f \in Frames :
        (f.fn = "request" /\ f.pc \in {"download", "downloaded"}) =>
            /\ f.retryTime = BackoffDelay(f.fails)
            /\ f.retryTime <= 600
            /\ f.slept = TotalBackoff(f.fails)
            /\ f.pc = "downloaded" =>
                 /\ f.webpage.body = hist.served
                 /\ f.fails = 3 => f.slept = 1 + 5 + 25

C1_Witness ==
    \E f \in Frames :
        /\ f.fn = "request"
        /\ f.pc = "downloaded"
        /\ f.fails = 3
        /\ f.slept = 31
        /\ f.webpage.body = "p2"

\* C2: when the userid cookie does not appear, _login makes exactly two
\* login attempts and then raises LoginError; no _login makes a third.
C2_TwoLoginAttempts ==
    /\ hist.attempts <= 2
    /\ result.error = "LoginError: Cannot log in." =>
         /\ hist.attempts = 2
         /\ ~_cookies.userid
         /\ stack = <<>>

C2_Witness ==
    /\ result.status = "raised"
    /\ result.error = "LoginError: Cannot log in."
    /\ hist.attempts = 2

\* the precondition of C3: username or password not configured
NoCredentials == _credentials.username = "None" \/ _credentials.password = "None"

\* C3 as claimed: an authenticated request made without credentials raises
\* before any network call, in every session state.
C3_Original ==
    (hist.auth /\ NoCredentials) =>
        /\ ~hist.networked
        /\ result.status # "returned"

\* the request has to log in before it can be sent: no cookie set is loaded
\* and no stored cookie jar can be loaded with the userid cookie
MustLogIn == /\ hist.auth
             /\ ~hist.loaded
             /\ hist.stored \in {"absent", "no_userid"}

\* C3 amended: without credentials no login request is ever sent, and an
\* authenticated request that has to log in first raises the
\* no-credentials LoginError before any network call.
C3_NoLoginWithoutCredentials ==
    NoCredentials =>
        /\ ~hist.loginSent
        /\ MustLogIn =>
             /\ ~hist.networked
             /\ result.status \in {"running", "raised"}
             /\ result.status = "raised" =>
                  result.error = "LoginError: no credentials available."

C3_Witness ==
    /\ NoCredentials
    /\ MustLogIn
    /\ _data_dir = "dir"
    /\ result.status = "raised"
    /\ result.error = "LoginError: no credentials available."

\* C4 as claimed: a call of request whose response holds the marker logs in
\* again exactly once and downloads the page again exactly once, whatever
\* the page downloaded again holds.
C4_Original ==
    hist.relogins > 0 =>
        /\ hist.relogins = 1
        /\ hist.reissues <= 1
        /\ result.status = "returned" => hist.reissues = 1


Kinds == {"dd", "dts"}
ThreadIds == 1..Len(threads)
ThreadsOf(kind, code) ==
    {i \in ThreadIds : threads[i].kind = kind /\ threads[i].code = code}
Started(kind) == {i \in ThreadIds : threads[i].kind = kind}
AnyRunning == \E i \in ThreadIds : Running(i)
LoopsDone == ppc \in {"count", "dd_join", "dts_join", "parse", "done", "raised"}
MapsComplete == /\ Keys(dd_threads) = CodesFound("dd")
                /\ Keys(dts_threads) = CodesFound("dts")
DDCodesOfPage == [i \in 1..Len(page) |-> page[i].dd]

\* C6: _process_page starts one download thread per distinct code of each
\* kind found in the page, however often the code occurs: no code ever has
\* two threads, only codes of the page have one, and once both loops are
\* over the threads of a kind are as many as its distinct codes.
C6_OneTaskPerCode ==
    /\ \A kind \in Kinds, code \in Codes :
         /\ Cardinality(ThreadsOf(kind, code)) <= 1
         /\ ThreadsOf(kind, code) # {} => code \in CodesFound(kind)
    /\ LoopsDone =>
         \A kind \in Kinds :
             Cardinality(Started(kind)) = Cardinality(CodesFound(kind))

C6_Witness ==
    /\ DDCodesOfPage = <<"abc", "abc", "xyz">>
    /\ LoopsDone
    /\ Cardinality(Started("dd")) = 2

\* C7: the records are parsed, and any image is taken over into _dd or
\* _dts, only after the thread concerned has ended: when _parse_caches runs
\* or has produced a record every thread has been joined and every code of
\* the page has its entry.
C7_ParseAfterJoin ==
    /\ (ppc \in {"parse", "done", "raised"} \/ caches # <<>>) =>
         /\ \A i \in ThreadIds : ~Running(i)
         /\ Entries(_dd) = CodesFound("dd")
         /\ Entries(_dts) = CodesFound("dts")
    /\ \A code \in Entries(_dd) : ~Running(dd_threads[code])
    /\ \A code \in Entries(_dts) : ~Running(dts_threads[code])

C7_Witness ==
    /\ ppc = "done"
    /\ Len(threads) = 3
    /\ Len(caches) = 3
    /\ \E i \in ThreadIds : threads[i].fails > 0

\* from_data gave no pixels: no bytes, or bytes that are no PNG
DecodeFailed(thread) ==
    /\ threads[thread].pc = "finished"
    /\ threads[thread].data \in {"empty", "garbage"}

FetchFailed(thread) == threads[thread].fails > 0

\* C8 as claimed: the code of an image whose fetch failed or whose decoding
\* failed stays unresolved, its records are built without the fields.
C8_Original ==
    \A i \in 1..Len(caches) :
        /\ page[i].dd # "None" =>
             ((FetchFailed(dd_threads[page[i].dd]) \/ DecodeFailed(dd_threads[page[i].dd]))
                 => ~caches[i].distance)
        /\ page[i].dts # "None" =>
             ((FetchFailed(dts_threads[page[i].dts]) \/ DecodeFailed(dts_threads[page[i].dts]))
                 => ~caches[i].difficulty)

\* C8 amended: an image that cannot be decoded leaves its code unresolved and
\* the records that use the code without the fields, the records of the codes
\* whose images are good get their fields whether or not a fetch had to be
\* retried, and parsing is given up only for an image whose glyphs spell no
\* number, never for a failed fetch or a failed decoding.
C8_DecodeFailureIsLocal ==
    /\ \A i \in 1..Len(caches) :
         /\ page[i].dd # "None" =>
              /\ DecodeFailed(dd_threads[page[i].dd]) =>
                   ~caches[i].distance /\ _dd[page[i].dd] = "None"
              /\ threads[dd_threads[page[i].dd]].data = "png_ok" =>
                   caches[i].distance /\ _dd[page[i].dd] = "value"
         /\ page[i].dts # "None" =>
              /\ DecodeFailed(dts_threads[page[i].dts]) =>
                   ~caches[i].difficulty /\ _dts[page[i].dts] = "None"
              /\ threads[dts_threads[page[i].dts]].data = "png_ok" =>
                   caches[i].difficulty /\ _dts[page[i].dts] = "value"
    /\ ppc = "raised" => \E i \in ThreadIds : threads[i].data = "png_nan"
    /\ ppc = "done" => Len(caches) = Len(page)

C8_Witness ==
    /\ ppc = "done"
    /\ DDCodesOfPage = <<"abc", "xyz", "abc">>
    /\ threads[dd_threads["abc"]].data = "garbage"
    /\ threads[dd_threads["xyz"]].data = "png_ok"
    /\ FetchFailed(dd_threads["xyz"])
    /\ ~caches[1].distance /\ caches[2].distance /\ ~caches[3].distance

\* C9 as claimed: while a thread runs both maps are complete, and no entry
\* is about to be added.
C9_Original ==
    AnyRunning =>
        /\ MapsComplete
        /\ ppc \notin {"dd_insert", "dts_insert"}

\* a step of an ImageDownloader thread: the thread objects change, none is
\* created
TaskStep == Len(threads') = Len(threads) /\ threads' # threads

\* C9 amended: a thread is started before it is entered in its map, so the
\* maps grow while threads run; they are read and written by the thread that
\* runs _process_page alone, each thread is entered right after its start
\* under its own code, and both maps are complete when the loops are over,
\* before the first join.
C9_MapOwnedByCaller ==
    /\ [](\A a \in access : a[2] \in {"dd_threads", "dts_threads"} => a[1] = "main")
    /\ [](\A i \in ThreadIds :
             \/ /\ threads[i].kind = "dd"
                /\ dd_threads[threads[i].code] = i
             \/ /\ threads[i].kind = "dts"
                /\ dts_threads[threads[i].code] = i
             \/ /\ i = Len(threads)
                /\ ppc = (IF threads[i].kind = "dd" THEN "dd_insert" ELSE "dts_insert"))
    /\ [](LoopsDone => MapsComplete)
    /\ [][TaskStep => UNCHANGED <<dd_threads, dts_threads>>]_vars

C9_Witness ==
    /\ ppc = "dd_insert"
    /\ Len(threads) = 2
    /\ threads[1].pc = "download"
    /\ Keys(dd_threads) = {"abc"}

RateAndCookies == <<_first_download, _last_download, _download_count, _cookies>>

\* C10: the rate counters and the cookie set are touched by the thread that
\* calls request alone: no step of an ImageDownloader thread reads or writes
\* them (wait writes _last_download, so no thread calls wait), they change
\* only inside request, and a step of a thread changes the fields of that
\* one thread and nothing of the parser.
C10_SingleOwner ==
    /\ [](\A a \in access :
             a[2] \in RateFields \cup {"_cookies"} => a[1] = "main")
    /\ [][TaskStep =>
            /\ UNCHANGED RateAndCookies
            /\ Cardinality({i \in ThreadIds : threads'[i] # threads[i]}) = 1
            /\ UNCHANGED <<_dd, _dts, caches, dd_threads, dts_threads>>]_vars
    /\ [][RateAndCookies' # RateAndCookies =>
            /\ At("request", "wait")
            /\ threads' = threads]_vars

C10_Witness ==
    /\ <<"main", "_last_download">> \in access
    /\ <<"task", "_user_agent">> \in access
    /\ Len(threads) = 3
    /\ threads[1].image = "png_ok"
    /\ threads[2].pc = "download"
    /\ threads[3].pc = "build_opener"

(***************************************************************************)
(* Claims on HTTPInterface.wait                                            *)
(***************************************************************************)
\* the bands of delays as the claims give them
BandLow(count) ==
    IF count < 10 THEN 1 ELSE IF count < 50 THEN 2 ELSE IF count < 200 THEN 5
    ELSE IF count < 500 THEN 10 ELSE 20
BandHigh(count) ==
    IF count < 10 THEN 1 ELSE IF count < 50 THEN 8 ELSE IF count < 200 THEN 35
    ELSE IF count < 500 THEN 50 ELSE 80

TwoAuthWaits == waited.auth_before # NoWait /\ waited.auth_last # NoWait

\* C11 as claimed: of two authenticated calls of wait made one after the
\* other at the same time of the clock, the later computes no smaller delay.
C11_Original ==
    (TwoAuthWaits /\ waited.auth_before.at = waited.auth_last.at) =>
        waited.auth_last.sleep_time >= waited.auth_before.sleep_time

\* C11 amended: of two authenticated calls of wait made back to back, the
\* later finds no smaller ahead-of-schedule count (one more when no time
\* has passed), so the band of its delay, lower and upper end, is no lower;
\* the delay itself is drawn at random from the band and may be smaller.
C11_BandsNonDecreasing ==
    TwoAuthWaits =>
        /\ waited.auth_last.count >= waited.auth_before.count
        /\ waited.auth_before.at = waited.auth_last.at =>
             waited.auth_last.count = waited.auth_before.count + 1
        /\ BandLow(waited.auth_last.count) >= BandLow(waited.auth_before.count)
        /\ BandHigh(waited.auth_last.count) >= BandHigh(waited.auth_before.count)
        /\ waited.auth_last.sleep_time >= BandLow(waited.auth_before.count)
        /\ waited.auth_before.sleep_time <= BandHigh(waited.auth_last.count)

C11_Witness ==
    /\ TwoAuthWaits
    /\ waited.auth_before.at = waited.auth_last.at
    /\ waited.auth_before.count = 10
    /\ waited.auth_before.sleep_time = 8
    /\ waited.auth_last.sleep_time = 2

\* C12: wait chooses 1 s for a call without authentication whatever the
\* history, and for an authenticated call a delay of the band of its count;
\* no delay is above 80 s, the call sleeps no longer than the delay, and a
\* call that has reached wait can always go on.
C12_BoundedDelay ==
    /\ waited.last.sleep_time <= 80
    /\ waited.last.slept <= waited.last.sleep_time
    /\ (waited.last # NoWait /\ ~waited.last.auth) => waited.last.sleep_time = 1
    /\ waited.last.auth =>
         /\ waited.last.sleep_time >= BandLow(waited.last.count)
         /\ waited.last.sleep_time <= BandHigh(waited.last.count)
    /\ At("request", "wait") => ENABLED wait_recorded

C12_Witness ==
    /\ waited.last.auth
    /\ waited.last.count >= 500
    /\ waited.last.sleep_time = 80
    /\ waited.last.slept = 80

(***************************************************************************)
(* Claims on the persisted session state                                   *)
(***************************************************************************)
\* the jar in memory is tied to the cookie file of the user
PersistentJar == _cookies.jar = "LWPCookieJar"
\* the cookie file holds what the jar in memory holds
SavedCookies == cookie_file = (IF _cookies.userid THEN "userid" ELSE "no_userid")

\* C13: when the jar is an LWPCookieJar, the cookie file holds the cookies
\* of the jar whenever an authenticated request is about to check its
\* response, whenever a request of a login attempt has returned to
\* _login_attempt, and whenever an authenticated request has returned to the
\* parser: the save comes after every download and before check and return.
C13_CookiesSavedBeforeCheck ==
    PersistentJar =>
        /\ (At("request", "check") /\ Top.auth) => SavedCookies
        /\ (At("_login_attempt", "post") \/ At("_login_attempt", "cookie")) => SavedCookies
        /\ (stack = <<>> /\ result.status = "returned" /\ hist.auth) => SavedCookies

\* the page fetched again after a re-login has returned, the file that was
\* absent when the call began now holds the userid cookie of the login
C13_Witness ==
    /\ PersistentJar
    /\ stack = <<>>
    /\ result.status = "returned"
    /\ hist.auth
    /\ hist.stored = "absent"
    /\ hist.reissues = 1
    /\ cookie_file = "userid"

\* C14 as claimed: no call of request ends with the error of reading the
\* stored cookies, and an authenticated call that found a cookie file that
\* does not parse logs in with a fresh jar.
C14_Original ==
    /\ result.error # "LoadError"
    /\ (hist.auth /\ ~hist.loaded /\ hist.stored = "corrupt" /\ result.status # "idle"
          /\ stack = <<>>) => hist.logins >= 1

\* C15 as claimed: no call of request ends with the error of writing the
\* cookie file or the user agent file.
C15_Original ==
    result.error \notin {"IOError: cookies", "IOError: user agent"}

(***************************************************************************)
(* Claims on the login flow                                                *)
(***************************************************************************)
\* C16 as claimed: once _login has raised LoginError("Cannot log in.") in
\* this process, no _login is running, no authenticated request stands at
\* its download or has downloaded, and the jar holds no userid cookie.
C16_Original ==
    hist.failed =>
        /\ \A i \in 1..Len(stack) :
             /\ stack[i].fn # "_login"
             /\ ~(stack[i].fn = "request" /\ stack[i].auth
                    /\ stack[i].pc \in {"download", "downloaded", "check"})
        /\ ~_cookies.userid

(***************************************************************************)
(* Claims on Image                                                         *)
(***************************************************************************)
\* the maximal runs <<first, last>> of consecutive non-empty rows, columns
RowRuns(self, empty) ==
    {r \in (0..(self.height - 1)) \X (0..(self.height - 1)) :
        /\ r[1] <= r[2]
        /\ \A y \in r[1]..r[2] : ~row_is_empty(self, empty, y)
        /\ r[1] = 0 \/ row_is_empty(self, empty, r[1] - 1)
        /\ r[2] = self.height - 1 \/ row_is_empty(self, empty, r[2] + 1)}
ColumnRuns(self, empty) ==
    {r \in (0..(self.width - 1)) \X (0..(self.width - 1)) :
        /\ r[1] <= r[2]
        /\ \A x \in r[1]..r[2] : ~column_is_empty(self, empty, x)
        /\ r[1] = 0 \/ column_is_empty(self, empty, r[1] - 1)
        /\ r[2] = self.width - 1 \/ column_is_empty(self, empty, r[2] + 1)}

\* the image of the rows, of the columns, of a run
RowsOf(self, r) == Image(SubSeq(self.pixels, r[1] + 1, r[2] + 1))
ColumnsOf(self, r) ==
    Image([y \in 1..self.height |-> SubSeq(self.pixels[y], r[1] + 1, r[2] + 1)])

\* the place of a run among the runs, counted from 1
PlaceOf(r, runs) == Cardinality({q \in runs : q[1] <= r[1]})

\* the rows of the parts one after the other; row y of the parts side by side
RECURSIVE ConcatRows(_)
ConcatRows(parts) ==
    IF parts = <<>> THEN <<>> ELSE Head(parts).pixels \o ConcatRows(Tail(parts))
RECURSIVE ConcatColumns(_, _)
ConcatColumns(parts, y) ==
    IF parts = <<>> THEN <<>>
    ELSE Head(parts).pixels[y] \o ConcatColumns(Tail(parts), y)

\* the rows of the image without the empty ones, from row y on; row y of the
\* image without the pixels of the empty columns, from column x on
RECURSIVE KeepRows(_, _, _)
KeepRows(self, empty, y) ==
    IF y >= self.height THEN <<>>
    ELSE (IF row_is_empty(self, empty, y) THEN <<>> ELSE <<self.pixels[y + 1]>>)
         \o KeepRows(self, empty, y + 1)
RECURSIVE KeepColumns(_, _, _, _)
KeepColumns(self, empty, y, x) ==
    IF x >= self.width THEN <<>>
    ELSE (IF column_is_empty(self, empty, x) THEN <<>> ELSE <<PixelAt(self, x, y)>>)
         \o KeepColumns(self, empty, y, x + 1)

\* C17: vsplit returns one part per maximal run of non-empty rows, the k-th
\* part being the rows of the k-th run from the top, and the rows of the
\* parts put one after the other are the rows of the image without the empty
\* rows; hsplit returns one part per maximal run of non-empty columns, from
\* the left, and the parts side by side are the image without its empty
\* columns.
C17_SplitIntoRuns ==
    /\ returned.method = "vsplit" =>
         LET runs == RowRuns(image.self, image.empty) IN
           /\ Len(returned.parts) = Cardinality(runs)
           /\ \A r \in runs :
                returned.parts[PlaceOf(r, runs)] = RowsOf(image.self, r)
           /\ ConcatRows(returned.parts) = KeepRows(image.self, image.empty, 0)
    /\ returned.method = "hsplit" =>
         LET runs == ColumnRuns(image.self, image.empty) IN
           /\ Len(returned.parts) = Cardinality(runs)
           /\ \A r \in runs :
                returned.parts[PlaceOf(r, runs)] = ColumnsOf(image.self, r)
           /\ \A y \in 1..image.self.height :
                returned.parts # <<>> =>
                    ConcatColumns(returned.parts, y)
                        = KeepColumns(image.self, image.empty, y - 1, 0)

\* three rows with an empty one in the middle, the last row holding an empty
\* pixel next to a filled one: two parts of one row
C17_Witness ==
    /\ returned.method = "vsplit"
    /\ image.empty = {"clear"}
    /\ image.self.pixels = << <<"ink", "ink">>, <<"clear", "clear">>, <<"clear", "ink">> >>
    /\ returned.parts = << Image(<< <<"ink", "ink">> >>), Image(<< <<"clear", "ink">> >>) >>

(***************************************************************************)
(* Claims on the recognition of the images                                 *)
(***************************************************************************)
\* _get_dd / _get_dts was called on an image of two bands
Recognized(method) ==
    /\ returned.method = method
    /\ image.entry.type = "Image"
    /\ Len(image.entry.bands) = 2

HasUnknown(band) == \E i \in 1..Len(band) : band[i] = Unknown

\* a glyph that the function looks up is not in the dictionary: for a
\* CacheDir image a glyph of the direction after the first part, which is
\* dropped, or of the distance; for a CacheInfo image a glyph of D/T or the
\* size
UnresolvedGlyph ==
    \/ /\ Recognized("_get_dd")
       /\ HasUnknown(Tail(image.entry.bands[1])) \/ HasUnknown(image.entry.bands[2])
    \/ /\ Recognized("_get_dts")
       /\ HasUnknown(image.entry.bands[1]) \/ HasUnknown(image.entry.bands[2])

\* C18 as claimed: with a glyph that is not resolved, the call returns None,
\* the entry of the code is None and the record gets no field of the image.
C18_Original ==
    UnresolvedGlyph =>
        /\ returned.raised = "none"
        /\ returned.result = NoneValue
        /\ returned.entry = NoneValue
        /\ returned.fields = {}

\* C19 as claimed: no call of _get_dd or _get_dts raises.
C19_Original == returned.raised = "none"

\* the text the glyphs of a band draw
TextOf(band) == [i \in 1..Len(band) |-> band[i].bitmask]

\* C20: for a CacheDir image of two bands whose glyphs all resolve, with the
\* distance text "<number>mi" the distance is number * 1.609344, with
\* "<number>ft" it is number * 0.0003048 (where the text before the unit is
\* a number), with "Here" it is 0, and with a text that has neither unit
\* and is not Here the call returns None; the direction returned is the text
\* of the direction band after its first part.
C20_UnitDeterminesConversion ==
    (Recognized("_get_dd") /\ ~UnresolvedGlyph) =>
        LET text == TextOf(image.entry.bands[2])
            number == float(WithoutUnit(text))
            value == returned.result
        IN  /\ (endswith(text, <<"m", "i">>) /\ number.raised = "none") =>
                 /\ value.type = "tuple"
                 /\ value.distance.mantissa = number.value.mantissa * 1609344
                 /\ value.distance.decimals = number.value.decimals + 6
            /\ (endswith(text, <<"f", "t">>) /\ number.raised = "none") =>
                 /\ value.type = "tuple"
                 /\ value.distance.mantissa = number.value.mantissa * 3048
                 /\ value.distance.decimals = number.value.decimals + 7
            /\ text = <<"H", "e", "r", "e">> =>
                 /\ value.type = "tuple"
                 /\ value.distance = Decimal(0, 0)
            /\ (/\ ~endswith(text, <<"m", "i">>)
                /\ ~endswith(text, <<"f", "t">>)
                /\ text # <<"H", "e", "r", "e">>) =>
                 /\ returned.raised = "none"
                 /\ value = NoneValue
                 /\ returned.fields = {}
            /\ value.type = "tuple" =>
                 /\ value.direction = TextOf(Tail(image.entry.bands[1]))
                 /\ returned.fields = {"distance", "direction"}
                 /\ returned.entry = value

\* 12.5mi to the north-east: 20.1168000 km
C20_Witness ==
    /\ Recognized("_get_dd")
    /\ TextOf(image.entry.bands[2]) = <<"1", "2", ".", "5", "m", "i">>
    /\ returned.result = DDValue(Decimal(201168000, 7), <<"N", "E">>)


(***************************************************************************)
(* Download stats: HTTPInterface.stats with _save_stats and _load_stats.   *)
(* The dictionary is a sequence of [key, value] entries in insertion       *)
(* order; a key is the text of date.isoformat(), kept as its three fields  *)
(* <<year, month, day>>; the file is the sequence of its lines, each line  *)
(* split at the tab: <<text of the date, decimal digits of the count>>.    *)
(***************************************************************************)
StatsWindow == 93
MaxCount == 2
\* requests counted on one day
MaxDays == 94
\* days covered by one run
Nights == {46, 47}
\* days passing between two operations

\* the proleptic Gregorian calendar of datetime.date, over two years
Years == 2011..2012
DaysInMonth(year, month) ==
    IF month = 2
    THEN IF year % 4 = 0 /\ (year % 100 # 0 \/ year % 400 = 0) THEN 29 ELSE 28
    ELSE IF month \in {4, 6, 9, 11} THEN 30 ELSE 31
Dates == {d \in [year : Years, month : 1..12, day : 1..31] :
            d.day <= DaysInMonth(d.year, d.month)}
RECURSIVE days_before_month(_, _)
days_before_month(year, month) ==
    IF month = 1 THEN 0
    ELSE days_before_month(year, month - 1) + DaysInMonth(year, month - 1)
RECURSIVE days_before_year(_)
days_before_year(year) ==
    IF year \notin Years \/ year - 1 \notin Years THEN 0
    ELSE days_before_year(year - 1) + days_before_month(year - 1, 12) + 31
\* date.toordinal, counted from the first day of Years
toordinal(d) == days_before_year(d.year) + days_before_month(d.year, d.month) + d.day
fromordinal(n) == CHOOSE d \in Dates : toordinal(d) = n
FirstDay == [year |-> 2011, month |-> 11, day |-> 30]
\* date.today(): the process starts at midnight of FirstDay
today == fromordinal(toordinal(FirstDay) + (now - Epoch) \div 86400)

isoformat(d) == <<d.year, d.month, d.day>>
\* date(int(f[0]), int(f[1]), int(f[2])) of the fields of line[0].split("-")
date(fields) == [year |-> fields[1], month |-> fields[2], day |-> fields[3]]
\* "{0}".format(n) and int(text) on decimal digits
RECURSIVE str(_)
str(n) == IF n < 10 THEN <<n>> ELSE Append(str(n \div 10), n % 10)
RECURSIVE int(_)
int(text) == IF Len(text) = 1 THEN text[1]
             ELSE 10 * int(SubSeq(text, 1, Len(text) - 1)) + text[Len(text)]

\* defaultdict(int): d[key] and d[key] = value
getitem(dict, key) ==
    IF \E i \in DOMAIN dict : dict[i].key = key
    THEN dict[CHOOSE i \in DOMAIN dict : dict[i].key = key].value
    ELSE 0
setitem(dict, key, value) ==
    IF \E i \in DOMAIN dict : dict[i].key = key
    THEN [i \in DOMAIN dict |->
            IF dict[i].key = key THEN [dict[i] EXCEPT !.value = value] ELSE dict[i]]
    ELSE Append(dict, [key |-> key, value |-> value])

NoStatsFile == [exists |-> FALSE, lines |-> <<>>]
\* HTTPInterface._save_stats: one line per item of the dictionary
save_lines(dict) == [i \in DOMAIN dict |-> <<dict[i].key, str(dict[i].value)>>]

\* _load_stats: download_date > timeout
is_recent_Inclusive(download_date, timeout) == toordinal(download_date) >= timeout
is_recent(download_date, timeout) == toordinal(download_date) > timeout

\* _load_stats: the loop over fp.readlines()
RECURSIVE load_lines(_, _, _)
load_lines(lines, dict, timeout) ==
    IF lines = <<>> THEN dict
    ELSE LET line == Head(lines)
             download_date == date(line[1])
             download_count == int(line[2])
         IN load_lines(Tail(lines),
                       IF is_recent(download_date, timeout)
                       THEN setitem(dict, isoformat(download_date), download_count)
                       ELSE dict,
                       timeout)

\* HTTPInterface._load_stats, the whole dictionary
load_stats(user_file) ==
    IF user_file = "None" \/ ~stats_file.exists THEN <<>>
    ELSE load_lines(stats_file.lines, <<>>, toordinal(today) - StatsWindow)

NothingSaved == [op |-> "none", saved |-> <<>>, day |-> FirstDay]

StatsInit ==
    /\ _credentials = [username |-> "user", password |-> "secret"]
    /\ _data_dir \in {"None", "dir"}
    /\ _cookies = NoCookies
    /\ _user_agent = "None"
    /\ _first_download = 0
    /\ _last_download = 0
    /\ _download_count = 0
    /\ cookie_file = "absent"
    /\ ua_file = FALSE
    /\ stats_file = NoStatsFile
    /\ stats = <<>>
    /\ now = Epoch
    /\ stack = <<>>
    /\ ret = NoRet
    /\ result = [status |-> "idle", error |-> "none", page |-> NoPage]
    /\ hist = [calls |-> 0]
    /\ failures_left = 0
    /\ access = {}
    /\ PageIdle
    /\ waited = NoWaits
    /\ image = "None"
    /\ returned = NothingSaved
    /\ patterns = <<>>
    /\ seek_result = NoSeekResult

StatsUnused ==
    UNCHANGED <<_credentials, _cookies, _user_agent, _first_download,
                _last_download, _download_count, cookie_file, ua_file, stack,
                ret, result, hist, failures_left, access, pageVars, waited, image,
                patterns, seek_result>>

\* HTTPInterface.request(auth=True) once the page is downloaded: the request
\* is counted for today and the stats are saved
request_counted ==
    /\ getitem(stats, isoformat(today)) < MaxCount
    /\ stats' = setitem(stats, isoformat(today), getitem(stats, isoformat(today)) + 1)
    /\ IF _user_file_name = "None"
       THEN UNCHANGED <<stats_file, returned>>
       ELSE /\ stats_file' = [exists |-> TRUE, lines |-> save_lines(stats')]
            /\ returned' = [op |-> "save", saved |-> stats', day |-> today]
    /\ UNCHANGED <<_data_dir, now>>
    /\ StatsUnused

\* HTTPInterface.set_data_dir: assigns _data_dir and reloads the stats
set_data_dir ==
    \E data_dir \in {"None", "dir"} :
      /\ _data_dir' = data_dir
      /\ stats' = load_stats(IF data_dir = "None" THEN "None" ELSE "user_file")
      /\ returned' = [returned EXCEPT !.op = "load", !.day = today]
      /\ UNCHANGED <<stats_file, now>>
      /\ StatsUnused

\* the clock moves on by whole days
day_passes ==
    \E nights \in Nights :
      /\ (now - Epoch) \div 86400 + nights <= MaxDays
      /\ now' = now + nights * 86400
      /\ UNCHANGED <<_data_dir, stats, stats_file, returned>>
      /\ StatsUnused

StatsNext ==
    \/ request_counted
    \/ set_data_dir
    \/ day_passes

SpecStats == StatsInit /\ [][StatsNext]_vars

(***************************************************************************)
(* SeekResult: the sequence SeekCache.get returns, with the first page     *)
(* loaded and the next pages loaded by __getitem__ as they are needed.     *)
(* A record is [page, row]: the page of the site it came with and its row. *)
(* _post_data is the number of the page the form data was scraped from;    *)
(* the site answers a request made with the form data of page k with page  *)
(* k + 1, holding any number of rows up to PageSize (pages past MaxPages   *)
(* are not told apart).                                                    *)
(***************************************************************************)
PageSize == 2
\* rows of a page of results (20 on the site)
MaxTotal == 3
\* total count the first page announces
MaxPages == 3
\* pages of one search the model tells apart
MaxLoads == 3
\* page loads of one access that are counted

page_rows(number, n) == [row \in 1..n |-> [page |-> number, row |-> row]]
NextPage(post_data) == Min(post_data + 1, MaxPages)

\* SeekResult.__len__
len(self) == self._count

\* "if index < 0: index += len(self)"
wrap(self, index) == IF index < 0 THEN index + len(self) ELSE index

\* "if 0 <= index < len(self)"
in_range(self, index) == 0 <= index /\ index < len(self)

\* mutant: the loop loads one page ahead
needs_page_Ahead(self, index) == index + 1 >= Len(self._caches)

\* "while index >= len(self._caches)"
needs_page(self, index) == index >= Len(self._caches)

\* what a record of level CRITICAL does in the handlers of the "gcparser"
\* loggers: the logging module records it; the console handler of pyggs
\* (libs/console.py, ColorLogging.emit) then raises SystemExit
LogHandlers == {"record", "exit"}

\* the test before self._log.critical("Seems like I missed some caches ..."):
\* a page is full or completes the count
expected_rows(self, loaded, n) == n = PageSize \/ n + loaded = self._count

\* the indexes passed to __getitem__: integers, and a value that is no int
Indexes ==
    {[isint |-> TRUE, value |-> n] : n \in (0 - MaxTotal - 1)..(MaxTotal + 1)}
    \cup {[isint |-> FALSE, value |-> 0]}

NoRecord == [page |-> 0, row |-> 0]
NotAccessed ==
    [index |-> [isint |-> TRUE, value |-> 0], raised |-> "none",
     value |-> NoRecord, fetches |-> 0]

\* SeekCache.get has returned SeekResult(caches, count, url, post_data, parser)
\* for the first page, of any count and any number of rows; where CRITICAL
\* exits, __init__ has passed its test of the first page
SeekInit ==
    /\ Idle
    /\ image = "None"
    /\ patterns = <<>>
    /\ returned = NotAccessed
    /\ \E count \in 0..MaxTotal, n \in 0..PageSize, log \in LogHandlers :
         /\ log = "exit" => (n = count \/ n = PageSize)
         /\ seek_result = [_count |-> count, _caches |-> page_rows(1, n),
                           _post_data |-> 1, _log |-> log]

SeekUnused ==
    UNCHANGED <<httpVars, access, page, threads, dd_threads, dts_threads, joined,
                _dd, _dts, caches, waited, image, patterns>>

\* SeekResult.__getitem__(index), up to the loop: IndexError, or the loop
\* begins with the index counted from the start
getitem_call ==
    /\ ppc = "idle"
    /\ \E index \in Indexes :
         IF index.isint /\ in_range(seek_result, wrap(seek_result, index.value))
         THEN /\ ppc' = "getitem"
              /\ idx' = wrap(seek_result, index.value)
              /\ returned' = [NotAccessed EXCEPT !.index = index]
         ELSE /\ returned' = [NotAccessed EXCEPT !.index = index, !.raised = "IndexError"]
              /\ UNCHANGED <<ppc, idx>>
    /\ UNCHANGED seek_result
    /\ SeekUnused

\* one round of the loop: SeekResult._load_next_page calls
\* self._parser._get_page(self._url, self._post_data)
load_next_page ==
    /\ ppc = "getitem"
    /\ needs_page(seek_result, idx)
    /\ ppc' = "_load_next_page"
    /\ returned' = [returned EXCEPT !.fetches = Min(@ + 1, MaxLoads)]
    /\ UNCHANGED <<idx, seek_result>>
    /\ SeekUnused

\* ... _get_page returns the next page: an unexpected number of records is
\* logged as CRITICAL, then the form data is kept and the records are appended
page_loaded ==
    /\ ppc = "_load_next_page"
    /\ \E n \in 0..PageSize :
         IF /\ ~expected_rows(seek_result, Len(seek_result._caches), n)
            /\ seek_result._log = "exit"
         THEN /\ ppc' = "idle"
              /\ returned' = [returned EXCEPT !.raised = "SystemExit"]
              /\ UNCHANGED seek_result
         ELSE /\ ppc' = "getitem"
              /\ seek_result' =
                    [seek_result EXCEPT
                       !._caches = @ \o page_rows(NextPage(seek_result._post_data), n),
                       !._post_data = NextPage(@)]
              /\ UNCHANGED returned
    /\ UNCHANGED idx
    /\ SeekUnused

\* the loop is over: return self._caches[index]
getitem_return ==
    /\ ppc = "getitem"
    /\ ~needs_page(seek_result, idx)
    /\ ppc' = "idle"
    /\ returned' = [returned EXCEPT !.value = seek_result._caches[idx + 1]]
    /\ UNCHANGED <<idx, seek_result>>
    /\ SeekUnused

SeekNext ==
    \/ getitem_call
    \/ load_next_page
    \/ page_loaded
    \/ getitem_return

SpecSeek == SeekInit /\ [][SeekNext]_vars

\* the thread in __getitem__ runs on, and every page request returns
FairSpecSeek ==
    /\ SpecSeek
    /\ WF_vars(load_next_page)
    /\ WF_vars(page_loaded)
    /\ WF_vars(getitem_return)

(***************************************************************************)
(* Claims about the persisted download stats.                              *)
(***************************************************************************)
\* age in days, on the day of the load, of the day an entry counts
AgeAtLoad(entry) == toordinal(returned.day) - toordinal(date(entry.key))
StatsLoaded == returned.op = "load" /\ _user_file_name # "None"

\* C21: the stats file holds one line per calendar day, and _load_stats
\* after _save_stats restores every saved entry whose day is less than
\* StatsWindow (93) days before today with the count that was saved, and
\* drops every entry whose day is StatsWindow or more days before today.
C21_StatsRestoredWithinWindow ==
    /\ \A i, j \in DOMAIN stats_file.lines :
         stats_file.lines[i][1] = stats_file.lines[j][1] => i = j
    /\ StatsLoaded =>
         /\ \A i \in DOMAIN returned.saved :
              LET entry == returned.saved[i] IN
                IF AgeAtLoad(entry) < StatsWindow
                THEN \E j \in DOMAIN stats : stats[j] = entry
                ELSE \A j \in DOMAIN stats : stats[j].key # entry.key
         /\ \A j \in DOMAIN stats :
              \E i \in DOMAIN returned.saved : returned.saved[i] = stats[j]
         /\ \A i, j \in DOMAIN stats : stats[i].key = stats[j].key => i = j

C21_Witness ==
    /\ StatsLoaded
    /\ \E i \in DOMAIN returned.saved :
         /\ AgeAtLoad(returned.saved[i]) \in 1..(StatsWindow - 1)
         /\ returned.saved[i].value = MaxCount
         /\ \E j \in DOMAIN stats : stats[j] = returned.saved[i]
    /\ \E i \in DOMAIN returned.saved :
         /\ AgeAtLoad(returned.saved[i]) = StatsWindow
         /\ \A j \in DOMAIN stats : stats[j].key # returned.saved[i].key


(***************************************************************************)
(* Claims about the glyph dictionary.                                      *)
(***************************************************************************)
\* C22: in any sequence of recognitions the pattern table stays the table
\* that _load_patterns filled, and a lookup of a signature of the table
\* gives the character the table was loaded with.
C22_PatternsReadOnly ==
    /\ patterns = _load_patterns
    /\ \A pattern \in DOMAIN _load_patterns :
         _match_pattern(pattern) = _load_patterns[pattern]

\* a later recognition of the sequence has looked an unknown glyph up
C22_Witness ==
    /\ idx >= 1
    /\ returned.method # "none"
    /\ LET lookups == IF image.kind = "dd" THEN lookups_dd(image.entry)
                      ELSE lookups_dts(image.entry)
       IN  \E i \in DOMAIN lookups : lookups[i] = Unknown


(***************************************************************************)
(* Claims about the difficulty / terrain / size image.                     *)
(***************************************************************************)
\* the places of the slashes in the text of the D/T band
Slashes(text) == {i \in 1..Len(text) : text[i] = "/"}

\* C23: for a CacheInfo image, _get_dts returns None unless the image has
\* exactly two bands and the text of the D/T band, its glyphs all resolved,
\* has exactly one slash; with the texts before and after the slash both
\* numbers and the whole size band one pattern of the dictionary it returns
\* (number before the slash, number after the slash, character of the size
\* pattern), and the record gets the three fields.
C23_TwoTokensAndSize ==
    (returned.method = "_get_dts" /\ image.entry.type = "Image") =>
        LET bands == image.entry.bands
            text == TextOf(bands[1])
            slash == CHOOSE i \in Slashes(text) : TRUE
            diff == float(SubSeq(text, 1, slash - 1))
            terr == float(SubSeq(text, slash + 1, Len(text)))
        IN  /\ Len(bands) # 2 =>
                 returned.raised = "none" /\ returned.result = NoneValue
            /\ (/\ Len(bands) = 2
                /\ ~HasUnknown(bands[1])
                /\ Cardinality(Slashes(text)) # 1) =>
                 returned.raised = "none" /\ returned.result = NoneValue
            /\ (/\ Len(bands) = 2
                /\ ~HasUnknown(bands[1])
                /\ Cardinality(Slashes(text)) = 1
                /\ diff.raised = "none" /\ terr.raised = "none"
                /\ Len(bands[2]) = 1 /\ ~HasUnknown(bands[2])) =>
                 /\ returned.raised = "none"
                 /\ returned.result =
                      DTSValue(diff.value, terr.value, bands[2][1].bitmask)
                 /\ returned.fields = {"difficulty", "terrain", "size"}

\* 3/1.5 and Regular: difficulty 3.0, terrain 1.5, size Regular
C23_Witness ==
    /\ returned.method = "_get_dts"
    /\ image.entry = ImageOf(<<Glyphs(<<"3", "/", "1", ".", "5">>), Glyphs(<<"Regular">>)>>)
    /\ returned.result = DTSValue(Decimal(3, 0), Decimal(15, 1), "Regular")


(***************************************************************************)
(* Claims about the maps self._dd and self._dts.                           *)
(***************************************************************************)
\* the join loops are over: _parse_caches runs or has ended
AfterJoin == ppc \in {"parse", "done", "raised"}

\* C24 as claimed: after the join no step modifies an entry of _dd or _dts.
C24_Original == [][AfterJoin => (_dd' = _dd /\ _dts' = _dts)]_vars

\* C24: an entry of _dd or _dts is written once by the join loop, with the
\* image of the thread of its code, while the entry is absent; after the
\* join an entry is modified only by _get_dd / _get_dts called for the
\* record being parsed, and only while it holds an image: it is replaced by
\* the decoded value or None, and an entry that holds no image any more is
\* never modified again.
C24_DecodedOnce ==
    [][\A code \in Codes :
         /\ _dd'[code] # _dd[code] =>
              \/ /\ ppc = "count"
                 /\ _dd'[code] = "absent"
              \/ /\ ppc = "dd_join"
                 /\ _dd[code] = "absent"
                 /\ _dd'[code] = threads[dd_threads[code]].image
                 /\ IsImage(_dd'[code])
              \/ /\ ppc = "parse"
                 /\ page[idx].dd = code
                 /\ IsImage(_dd[code])
                 /\ _dd'[code] \in {"None", "value"}
         /\ _dts'[code] # _dts[code] =>
              \/ /\ ppc = "dd_join"
                 /\ _dts'[code] = "absent"
              \/ /\ ppc = "dts_join"
                 /\ _dts[code] = "absent"
                 /\ _dts'[code] = threads[dts_threads[code]].image
                 /\ IsImage(_dts'[code])
              \/ /\ ppc = "parse"
                 /\ page[idx].dts = code
                 /\ IsImage(_dts[code])
                 /\ _dts'[code] \in {"None", "value"}]_vars

\* two records of the page share a code whose image was decoded for the
\* first of them
C24_Witness ==
    /\ ppc = "done"
    /\ Len(page) >= 2
    /\ page[1].dd = "abc" /\ page[2].dd = "abc"
    /\ _dd["abc"] = "value"
    /\ caches[1].distance /\ caches[2].distance


(***************************************************************************)
(* Claims about the texts of the direction / distance image.               *)
(***************************************************************************)
\* _get_dd has returned a (distance, direction) tuple for an image
Decoded == Recognized("_get_dd") /\ returned.result.type = "tuple"

\* the characters of the glyphs of a band, from left to right
Resolved(band) ==
    [i \in 1..Len(band) |->
        IF band[i] \in DOMAIN _load_patterns THEN _load_patterns[band[i]] ELSE "None"]

\* C25 as claimed: the direction text has one character for each glyph of
\* the direction band.
C25_Original ==
    Decoded => returned.result.direction = Resolved(image.entry.bands[1])

\* C25: the direction text is the left-to-right concatenation of the
\* characters of the glyphs of the direction band after the first glyph,
\* which is dropped without a lookup; the distance text is the concatenation
\* of the characters of every glyph of the distance band, and the distance
\* returned is the number this text spells with its unit.
C25_GlyphsConcatenated ==
    Decoded =>
        LET direction == image.entry.bands[1]
            distance == image.entry.bands[2]
            text == match_parts(distance, <<>>).text
            number == float(WithoutUnit(Resolved(distance))).value
        IN  /\ Len(returned.result.direction) = Len(direction) - 1
            /\ \A i \in 1..(Len(direction) - 1) :
                 returned.result.direction[i] = _load_patterns[direction[i + 1]]
            /\ Len(text) = Len(distance)
            /\ text = Resolved(distance)
            /\ returned.result.distance \in
                 {MilesToKm(number), FeetToKm(number), Decimal(0, 0)}

\* the band drawing N, S, E gives the direction SE
C25_Witness ==
    /\ Decoded
    /\ image.entry.bands[1] = Glyphs(<<"N", "S", "E">>)
    /\ returned.result.direction = <<"S", "E">>
    /\ returned.result.distance = Decimal(1609344, 6)


(***************************************************************************)
(* Claims about the cookie set of the process.                             *)
(***************************************************************************)
\* build_opener(auth=True) is about to call _get_cookies
GetsCookies == At("request", "build_opener") /\ Top.auth

\* the step calls HTTPInterface._login
LoginStarted ==
    /\ Len(stack') = Len(stack) + 1
    /\ stack'[Len(stack')].fn = "_login"

\* the cookie file of the user, absent without a user file
StoredSet == IF _user_file_name = "None" THEN "absent" ELSE cookie_file

\* C26: the first _get_cookies of the process (no cookie set assigned yet)
\* assigns the cookie set and calls _login if and only if there is no
\* stored cookie file or the stored set holds no userid cookie; with a
\* stored set that holds userid it goes on to the download without a login,
\* and no login request is sent unless the page downloaded shows that the
\* session is not signed in; every later _get_cookies returns the cookie
\* set already assigned, without loading and without a login.
C26_LoadOnceLoginIfNoIdentity ==
    [][/\ GetsCookies =>
            IF _cookies.jar = "None"
            THEN /\ _cookies'.jar # "None"
                 /\ LoginStarted <=> StoredSet \in {"absent", "no_userid"}
                 /\ StoredSet = "userid" =>
                      /\ _cookies' = [jar |-> "LWPCookieJar", userid |-> TRUE]
                      /\ stack' = SetTop([Top EXCEPT !.pc = "user_agent"])
                      /\ hist' = hist
            ELSE /\ _cookies' = _cookies
                 /\ ~LoginStarted
                 /\ stack' = SetTop([Top EXCEPT !.pc = "user_agent"])
                 /\ hist' = hist
       /\ (/\ hist'.auth
           /\ ~hist'.loaded
           /\ hist'.stored = "userid"
           /\ hist'.relogins = 0) => ~hist'.loginSent /\ hist'.logins = 0]_vars

\* a second authenticated request returns its page with the cookie set the
\* first one loaded from the file, and no login was made for either
C26_Witness ==
    /\ hist.calls = 2
    /\ hist.auth
    /\ hist.loaded
    /\ hist.stored = "userid"
    /\ hist.logins = 0
    /\ ~hist.loginSent
    /\ result.status = "returned"
    /\ _cookies = [jar |-> "LWPCookieJar", userid |-> TRUE]


(***************************************************************************)
(* Claims about the nesting of login cycles.                               *)
(***************************************************************************)
\* the frames of a function on the stack
Active(fn) == {i \in 1..Len(stack) : stack[i].fn = fn}

\* C27: at most one _login and at most one _login_attempt are active at a
\* time; the requests made inside a login cycle have auth set and check
\* unset, run with the cookie set already assigned, and are the innermost
\* frame: nothing is called from them.
C27_LoginNeverNests ==
    /\ Cardinality(Active("_login")) <= 1
    /\ Cardinality(Active("_login_attempt")) <= 1
    /\ \A i \in Active("_login") :
         /\ _cookies.jar # "None"
         /\ \A j \in (i + 1)..Len(stack) :
              /\ stack[j].fn \in {"_login_attempt", "request"}
              /\ stack[j].fn = "_login_attempt" => j = i + 1
              /\ stack[j].fn = "request" =>
                   /\ j = i + 2 /\ j = Len(stack)
                   /\ stack[j].url = "login"
                   /\ stack[j].auth /\ ~stack[j].check

\* the login request of a re-login has downloaded a page that carries the
\* not-signed-in marker, and no second login cycle starts for it
C27_Witness ==
    /\ Len(stack) = 4
    /\ stack[1].fn = "request" /\ stack[1].pc = "redownload"
    /\ stack[2].fn = "_login"
    /\ stack[3].fn = "_login_attempt"
    /\ stack[4].fn = "request" /\ stack[4].pc = "check"
    /\ stack[4].webpage.marker


(***************************************************************************)
(* Claims about the range of the ahead-of-schedule count.                  *)
(***************************************************************************)
\* an authenticated call of wait has been made
AuthWaited == waited.auth_last # NoWait

\* C28 as claimed: the count of every authenticated call of wait lies in
\* 0 .. download_count.
C28_Original ==
    AuthWaited =>
        /\ waited.auth_last.count >= 0
        /\ waited.auth_last.count <= returned.download_count

\* C28: the count of an authenticated call of wait never exceeds the
\* download count the call found; it is not negative when less than
\* request_avg_time passes between the reset of the anchor and the clock
\* read of the count, and in general it is not below minus the number of
\* whole request_avg_time periods that pass between the two.
C28_CountWithinDownloads ==
    AuthWaited =>
        /\ waited.auth_last.count <= returned.download_count
        /\ returned.stall < request_avg_time => waited.auth_last.count >= 0
        /\ waited.auth_last.count >= 0 - (returned.stall \div request_avg_time)

\* after a long pause the anchor is reset, and with the count read just
\* under request_avg_time later the count is exactly 0
C28_Witness ==
    /\ AuthWaited
    /\ returned.stall = request_avg_time - 1
    /\ returned.download_count = 11
    /\ waited.auth_last.count = 0


(***************************************************************************)
(* Claims about SeekResult.                                                *)
(***************************************************************************)
\* an index __getitem__ accepts: an int in -len .. len - 1
ValidIndex(index) ==
    /\ index.isint
    /\ 0 - seek_result._count <= index.value
    /\ index.value <= seek_result._count - 1

\* C29: len() never changes; records loaded stay where they are; a page is
\* requested only inside an access whose index is not below the number of
\* records loaded, with the form data of the page loaded last, and its
\* records are appended; an access with an index outside -len .. len - 1
\* (or no int) raises IndexError with no page requested; an access that
\* ends returns the record at its index.
C29_LazySequence ==
    [][/\ len(seek_result') = len(seek_result)
       /\ Len(seek_result'._caches) >= Len(seek_result._caches)
       /\ SubSeq(seek_result'._caches, 1, Len(seek_result._caches)) = seek_result._caches
       /\ ppc' = "_load_next_page" =>
            /\ ppc = "getitem"
            /\ idx >= Len(seek_result._caches)
            /\ idx < len(seek_result)
            /\ returned'.fetches = Min(returned.fetches + 1, MaxLoads)
            /\ seek_result' = seek_result
       /\ ppc' # "_load_next_page" => returned'.fetches <= returned.fetches
       /\ seek_result' # seek_result =>
            /\ ppc = "_load_next_page" /\ ppc' = "getitem"
            /\ seek_result'._post_data = NextPage(seek_result._post_data)
            /\ \A i \in (Len(seek_result._caches) + 1)..Len(seek_result'._caches) :
                 /\ seek_result'._caches[i].page = NextPage(seek_result._post_data)
                 /\ seek_result'._caches[i].row = i - Len(seek_result._caches)
       /\ (ppc = "idle" /\ returned' # returned) =>
            IF ValidIndex(returned'.index)
            THEN /\ ppc' = "getitem"
                 /\ returned'.raised = "none"
                 /\ returned'.fetches = 0
                 /\ idx' = IF returned'.index.value < 0
                           THEN returned'.index.value + seek_result._count
                           ELSE returned'.index.value
            ELSE /\ ppc' = "idle"
                 /\ returned'.raised = "IndexError"
                 /\ returned'.fetches = 0
                 /\ seek_result' = seek_result
       /\ (ppc = "_load_next_page" /\ ppc' = "idle") =>
            /\ returned'.raised = "SystemExit"
            /\ seek_result' = seek_result
       /\ (ppc = "getitem" /\ ppc' = "idle") =>
            /\ idx < Len(seek_result._caches)
            /\ returned'.value = seek_result._caches[idx + 1]
            /\ returned'.raised = "none"
            /\ seek_result' = seek_result]_vars

\* result[-1] of three records, two of them on the first page: one page is
\* loaded and its first record returned
C29_Witness ==
    /\ ppc = "idle"
    /\ returned.index = [isint |-> TRUE, value |-> 0 - 1]
    /\ returned.fetches = 1
    /\ returned.value = [page |-> 2, row |-> 1]
    /\ seek_result._count = 3
    /\ seek_result._caches = page_rows(1, 2) \o page_rows(2, 1)
    /\ seek_result._post_data = 2

\* C30 as claimed: every access with a valid index returns.
C30_Original == (ppc # "idle") ~> (ppc = "idle" /\ returned.raised = "none")

====
